---- MODULE Spec2Model ----
(***************************************************************************)
(* The tool-dispatch reasoning loop of MetaCortex                          *)
(* (src/meta_cortex/react_agent.py, client_manager.py, my_client.py).      *)
(*                                                                         *)
(* Text is a sequence of symbols.  A symbol is a string; the literals the  *)
(* code matches or emits as a unit ("Final answer:", "Action: [",          *)
(* "Observation: ", "Error: ") are single symbols, separators and digits   *)
(* are one-character symbols, and words are opaque symbols.                *)
(*                                                                         *)
(* Specifications: Spec, SpecSeq and SpecBudget run the loop of            *)
(* ReActAgent._async_run (with the usual responses, with responses holding *)
(* several directives, and from every way of configuring the endurance);   *)
(* SpecRegistry applies ClientManager.get_tools, SpecLine the directive    *)
(* parser and SpecArgs ReActAgent._parse_action_args to bounded inputs.    *)
(***************************************************************************)
EXTENDS Integers, Sequences, FiniteSets, TLC

\* ---------------------------------------------------------------- bounds
\* Calls of wolt_checkout followed.
MaxCheckouts == 2

\* Tasks the API server is sent.
MaxTasks == 2

\* Servers the configuration of a ClientManager names.
MaxServers == 2

\* Largest endurance handed to the constructor.
MaxEndurance == 2
\* Largest number of directive (tool calling) turns the LLM takes in one run.
MaxToolCalls == 2
\* Largest number of tools a server lists.
MaxListed == 2
\* Largest number of symbols of an argument value.
MaxValueLen == 2
\* Largest number of symbols of a raw argument string.
MaxArgLen == 4
\* Longest transcript a further run is started on.
MaxTranscript == 3

\* ------------------------------------------------------------- constants
DEFAULT_ENDURANCE == 5

\* --------------------------------------------------------------- symbols
FINAL == "Final answer:"
ACT == "Action: ["
BAR == "|"
CLOSE == "]"
DOT == "."
COLON == ":"
COMMA == ","
SP == " "
LF == "<LF>"
CRLF == "<CRLF>"
OBS == "Observation: "
ERR == "Error: "

\* The value None of the implementation language: a reserved value that is no
\* text (no text holds the symbol "<None>").
None == <<"<None>">>

\* isinstance(x, str)
IsStr(x) == x # None

Digits == {"0", "1", "2", "3", "4", "5", "6", "7", "8", "9"}

DigitVal(d) ==
    CASE d = "0" -> 0 [] d = "1" -> 1 [] d = "2" -> 2 [] d = "3" -> 3
      [] d = "4" -> 4 [] d = "5" -> 5 [] d = "6" -> 6 [] d = "7" -> 7
      [] d = "8" -> 8 [] d = "9" -> 9

\* ---------------------------------------------------------- text helpers
Min(S) == CHOOSE x \in S : \A y \in S : x <= y
Max(S) == CHOOSE x \in S : \A y \in S : x >= y

\* sym in text
Contains(text, sym) == \E i \in 1..Len(text) : text[i] = sym

\* Index of the first occurrence of sym in text at or after position from;
\* Len(text) + 1 when there is none.
Find(text, sym, from) ==
    Min({i \in from..Len(text) : text[i] = sym} \cup {Len(text) + 1})

IsSpace(s) == s \in {SP, LF, CRLF}

\* str.strip(): drop the leading and the trailing whitespace.
strip(text) ==
    LET keep == {i \in 1..Len(text) : ~IsSpace(text[i])}
    IN  IF keep = {} THEN <<>> ELSE SubSeq(text, Min(keep), Max(keep))

\* str.split(sep): the pieces between the occurrences of sep.
RECURSIVE split(_, _)
split(text, sep) ==
    LET i == Find(text, sep, 1)
    IN  IF i > Len(text) THEN <<text>>
        ELSE <<SubSeq(text, 1, i - 1)>> \o split(SubSeq(text, i + 1, Len(text)), sep)

\* Mutation: the text is cut at the last sep.
SplitLast(text, sep) ==
    LET at == {i \in 1..Len(text) : text[i] = sep}
    IN  IF at = {} THEN <<text>>
        ELSE <<SubSeq(text, 1, Max(at) - 1), SubSeq(text, Max(at) + 1, Len(text))>>

\* str.split(sep, 1): at most two pieces, cut at the first sep.
split1(text, sep) ==
    LET i == Find(text, sep, 1)
    IN  IF i > Len(text) THEN <<text>>
        ELSE <<SubSeq(text, 1, i - 1), SubSeq(text, i + 1, Len(text))>>

\* ------------------------------------------------------ argument coercion
\* A coerced argument value: an int, a float (whole part and fraction digits,
\* trailing zeros dropped) or the unchanged string.
IntValue(neg, n) == [kind |-> "int", neg |-> neg /\ n # 0, num |-> n, frac |-> <<>>, text |-> <<>>]
FloatValue(neg, n, f) == [kind |-> "float", neg |-> neg, num |-> n, frac |-> f, text |-> <<>>]
StrValue(t) == [kind |-> "str", neg |-> FALSE, num |-> 0, frac |-> <<>>, text |-> t]

AllDigits(t) == \A i \in 1..Len(t) : t[i] \in Digits

RECURSIVE DecVal(_)
DecVal(t) ==
    IF t = <<>> THEN 0
    ELSE 10 * DecVal(SubSeq(t, 1, Len(t) - 1)) + DigitVal(t[Len(t)])

\* The fraction digits without their trailing zeros.
RECURSIVE TrimZeros(_)
TrimZeros(f) ==
    IF f # <<>> /\ f[Len(f)] = "0" THEN TrimZeros(SubSeq(f, 1, Len(f) - 1)) ELSE f

\* float(value_str) succeeds: an optional sign, then digits with an optional
\* point (at least one digit on one side of it).
IsNumeric(t) ==
    LET u == IF t # <<>> /\ t[1] \in {"-", "+"} THEN Tail(t) ELSE t
        p == Find(u, DOT, 1)
        w == SubSeq(u, 1, p - 1)
        f == SubSeq(u, p + 1, Len(u))
    IN  /\ AllDigits(w)
        /\ AllDigits(f)
        /\ Len(w) + Len(f) > 0

\* Mutation: a whole number stays a float.
FloatCoerce(value_str) ==
    IF ~IsNumeric(value_str) THEN StrValue(value_str)
    ELSE LET u == IF value_str[1] \in {"-", "+"} THEN Tail(value_str) ELSE value_str
             p == Find(u, DOT, 1)
         IN  FloatValue(value_str[1] = "-", DecVal(SubSeq(u, 1, p - 1)),
                        TrimZeros(SubSeq(u, p + 1, Len(u))))

\* Mutation: no numeric conversion, every value stays a string.
BadCoerce(value_str) == StrValue(value_str)

\* lines 476-485: float(value_str), int(value) when value.is_integer(),
\* the string itself when float() raises ValueError.
Coerce(value_str) ==
    IF ~IsNumeric(value_str) THEN StrValue(value_str)
    ELSE LET neg == value_str[1] = "-"
             u == IF value_str[1] \in {"-", "+"} THEN Tail(value_str) ELSE value_str
             p == Find(u, DOT, 1)
             w == DecVal(SubSeq(u, 1, p - 1))
             f == TrimZeros(SubSeq(u, p + 1, Len(u)))
         IN  IF f = <<>> THEN IntValue(neg, w) ELSE FloatValue(neg, w, f)

\* args[key] = value
DictSet(args, key, value) ==
    [k \in DOMAIN args \cup {key} |-> IF k = key THEN value ELSE args[k]]

EmptyDict == [k \in {} |-> StrValue(<<>>)]

\* Mutation: a segment is cut at its last colon.
RECURSIVE LastColonPairs(_, _)
LastColonPairs(param_pairs, args) ==
    IF param_pairs = <<>> THEN args
    ELSE LET key_value == SplitLast(Head(param_pairs), COLON)
         IN  IF Len(key_value) = 2
             THEN LastColonPairs(Tail(param_pairs),
                             DictSet(args, strip(key_value[1]), Coerce(strip(key_value[2]))))
             ELSE LastColonPairs(Tail(param_pairs), args)

\* Mutation: a segment without a colon becomes a flag (the option the source
\* leaves commented out).
RECURSIVE FlagPairs(_, _)
FlagPairs(param_pairs, args) ==
    IF param_pairs = <<>> THEN args
    ELSE LET key_value == split1(Head(param_pairs), COLON)
         IN  IF Len(key_value) = 2
             THEN FlagPairs(Tail(param_pairs),
                            DictSet(args, strip(key_value[1]), Coerce(strip(key_value[2]))))
             ELSE IF strip(key_value[1]) # <<>>
             THEN FlagPairs(Tail(param_pairs),
                            DictSet(args, strip(key_value[1]), StrValue(<<"True">>)))
             ELSE FlagPairs(Tail(param_pairs), args)

\* for pair in param_pairs: a segment with a colon sets its key, any other
\* segment (without a colon, or empty) adds nothing.
RECURSIVE ParsePairs(_, _)
ParsePairs(param_pairs, args) ==
    IF param_pairs = <<>> THEN args
    ELSE LET key_value == split1(Head(param_pairs), COLON)
         IN  IF Len(key_value) = 2
             THEN ParsePairs(Tail(param_pairs),
                             DictSet(args, strip(key_value[1]), Coerce(strip(key_value[2]))))
             ELSE ParsePairs(Tail(param_pairs), args)

\* ReActAgent._parse_action_args
_parse_action_args(action_args) ==
    IF action_args = None \/ action_args = <<>> THEN EmptyDict
    ELSE ParsePairs(split(action_args, COMMA), EmptyDict)

\* ------------------------------------------------ action-directive parser
\* ACTION_PATTERN = r'Action: \[([^|]+)\|(.*)\]' matched at position i of text:
\* group 1 runs to the first '|' and is not empty, group 2 runs from there to
\* the last ']' of the same line ('.' does not match a line feed).
BarOf(text, i) == Find(text, BAR, i + 1)
LineEnd(text, j) == Min({k \in j..Len(text) : text[k] \in {LF, CRLF}} \cup {Len(text) + 1})
ClosesOf(text, i) ==
    {k \in (BarOf(text, i) + 1)..(LineEnd(text, BarOf(text, i)) - 1) : text[k] = CLOSE}

MatchesAt(text, i) ==
    /\ text[i] = ACT
    /\ BarOf(text, i) <= Len(text)
    /\ BarOf(text, i) > i + 1
    /\ ClosesOf(text, i) # {}

\* action_re.search(response): the leftmost match, None when there is none.
NoMatch == [found |-> FALSE, group1 |-> <<>>, group2 |-> <<>>]

\* Mutation: the last match is taken instead of the first.
LastMatchSearch(text) ==
    LET starts == {i \in 1..Len(text) : MatchesAt(text, i)}
    IN  IF starts = {} THEN NoMatch
        ELSE LET i == Max(starts)
                 j == BarOf(text, i)
                 k == Max(ClosesOf(text, i))
             IN  [found |-> TRUE,
                  group1 |-> SubSeq(text, i + 1, j - 1),
                  group2 |-> SubSeq(text, j + 1, k - 1)]

action_re_search(text) ==
    LET starts == {i \in 1..Len(text) : MatchesAt(text, i)}
    IN  IF starts = {} THEN NoMatch
        ELSE LET i == Min(starts)
                 j == BarOf(text, i)
                 k == Max(ClosesOf(text, i))
             IN  [found |-> TRUE,
                  group1 |-> SubSeq(text, i + 1, j - 1),
                  group2 |-> SubSeq(text, j + 1, k - 1)]

\* ------------------------------------------------------------ environment
\* Servers of the configuration, and the tools each lists when it connects.
Servers == {<<"fs">>}
ServerTools(server) == IF server = <<"fs">> THEN {<<"ls">>} ELSE {}

\* Questions handed to run().
Questions == {<<"List files in /tmp">>, <<"hi">>}

\* Texts the LLM answers with.
T_plain == <<"Thought: ", "hm">>
T_final == <<"Thought: ", "ok", LF, FINAL, SP, "done">>
T_final_act ==
    <<ACT, "fs", DOT, "ls", BAR, "path", COLON, "/tmp", CLOSE, LF, FINAL, SP, "done">>
T_act == <<"Thought: ", "look", LF, ACT, "fs", DOT, "ls", BAR, "path", COLON, "/tmp",
           COMMA, SP, "n", COLON, "1", "0", CLOSE>>
T_unknown_server == <<ACT, "zz", DOT, "ls", BAR, "path", COLON, "/tmp", CLOSE>>
T_unknown_tool == <<ACT, "fs", DOT, "rm", BAR, "path", COLON, "/tmp", CLOSE>>
T_malformed == <<ACT, "fs", BAR, "path", COLON, "/tmp", CLOSE>>

Contents ==
    {T_plain, T_final, T_final_act, T_act, T_unknown_server, T_unknown_tool,
     T_malformed}

\* Responses holding two directives, on two lines and on one line.
T_two == <<ACT, "fs", DOT, "ls", BAR, "path", COLON, "/a", CLOSE, LF,
           ACT, "fs", DOT, "rm", BAR, "path", COLON, "/b", CLOSE>>
T_two_line == <<ACT, "fs", DOT, "ls", BAR, "path", COLON, "/a", CLOSE, SP,
                ACT, "fs", DOT, "rm", BAR, "path", COLON, "/b", CLOSE>>

ContentsSeq == {T_plain, T_final, T_two, T_two_line}

\* Every text an LLM of some agent answers with.
AllContents == Contents \cup ContentsSeq

\* What one HTTP exchange with the LLM service can end in.
\* The body of an answer whose status is not 200 (response.text).
StatusBodies == {<<"Bad Gateway">>, <<"flagged input: ", FINAL, SP, "x">>}

LLMOutcomes ==
    {[kind |-> k, content |-> <<>>] : k \in {"request_error", "json_error", "no_choices"}}
    \cup {[kind |-> "status", content |-> b] : b \in StatusBodies}
    \cup {[kind |-> "ok", content |-> c] : c \in AllContents \cup {None}}

\* What session.call_tool of the MCP library can end in: a list of content
\* items, or an exception.  A server asked for a tool it does not list answers
\* with an error, either as a protocol error (an exception in the client) or
\* as an error result carrying the server's message.
TextItem(t) == [type |-> "text", text |-> t]
ImageItem == [type |-> "image", text |-> <<>>]
Returned(items) == [kind |-> "content", content |-> items, msg |-> <<>>]
Raised(m) == [kind |-> "raise", content |-> <<>>, msg |-> m]

SessionOutcomes(server, tool_name) ==
    IF tool_name \in ServerTools(server)
    THEN {Returned(<<TextItem(<<"a.txt">>), TextItem(<<"b.txt">>)>>),
          Returned(<<ImageItem>>),
          Raised(<<"timed out">>)}
    ELSE {Raised(<<"Unknown tool">>),
          Returned(<<TextItem(<<ERR, "Unknown tool">>)>>)}

\* ------------------------------------------------------- OpenRouterAgent
\* Mutation: a request error is handed back without the error prefix.
BadExecute(outcome) ==
    IF outcome.kind = "request_error" THEN <<"Request error: ">>
    ELSE IF outcome.kind = "ok" THEN outcome.content
    ELSE <<ERR, "Error during API call: ">>

\* _handle_api_response and the except clauses of execute: what
\* OpenRouterAgent.execute returns for one HTTP exchange.
execute(outcome) ==
    CASE outcome.kind = "status" ->
           <<ERR, "API call failed with status code ", "500", ": ">> \o outcome.content
      [] outcome.kind = "no_choices" -> <<ERR, "Unexpected API response format">>
      [] outcome.kind = "request_error" -> <<ERR, "Request error: ">>
      [] outcome.kind = "json_error" -> <<ERR, "Error during API call: ">>
      [] outcome.kind = "ok" -> outcome.content

\* ------------------------------------------------------------- MCPClient
\* A tool result: a string, or the dict {"error": text}.
StrResult(t) == [isdict |-> FALSE, text |-> t]
ErrorDict(t) == [isdict |-> TRUE, text |-> t]

\* str(result) as the f-string of the observation formats it.
Str(result) ==
    IF result.isdict THEN <<"{'error': '">> \o result.text \o <<"'}">>
    ELSE result.text

\* result += content.text for each text item; a non-text item makes the
\* concatenation raise TypeError.
RECURSIVE Concat(_)
Concat(items) ==
    IF items = <<>> THEN <<>> ELSE Head(items).text \o Concat(Tail(items))

AllText(items) == \A i \in 1..Len(items) : items[i].type = "text"

\* MCPClient.call_tool once session.call_tool has ended in outcome.
MCPClient_call_tool(outcome) ==
    IF outcome.kind = "raise" THEN ErrorDict(outcome.msg)
    ELSE IF AllText(outcome.content) THEN StrResult(Concat(outcome.content))
    ELSE ErrorDict(<<"can only concatenate str">>)

\* ---------------------------------------------------------- ClientManager
\* One entry of MCPClient.tools, and one connected client with its tools in
\* the order the server listed them.
Tool(name, description) == [name |-> name, description |-> description]
Client(server_name, tools) == [server_name |-> server_name, tools |-> tools]

\* unique_tool_name = f"{server_name}|{tool_name}"
unique_tool_name(server_name, tool_name) == server_name \o <<BAR>> \o tool_name

\* The registry entry (tool_func, tool_description): the wrapper is closed
\* over the server and the tool name.
Entry(server_name, tool) ==
    [server |-> server_name, tool_name |-> tool.name, description |-> tool.description]

\* Mutation: a name that is already registered keeps its earlier entry.
KeepFirstRegister(tools, key, entry) ==
    [k \in DOMAIN tools \cup {key} |-> IF k \in DOMAIN tools THEN tools[k] ELSE entry]

\* tools[unique_tool_name] = (tool_func, tool_description)
Register(tools, key, entry) ==
    [k \in DOMAIN tools \cup {key} |-> IF k = key THEN entry ELSE tools[k]]

NoTools == [k \in {} |-> Entry(<<>>, Tool(<<>>, <<>>))]

\* for tool in client.tools
RECURSIVE AddTools(_, _, _)
AddTools(tools, server_name, listing) ==
    IF listing = <<>> THEN tools
    ELSE AddTools(Register(tools, unique_tool_name(server_name, Head(listing).name),
                           Entry(server_name, Head(listing))),
                  server_name, Tail(listing))

\* for server_name, client in self.connected_clients.items()
RECURSIVE AddClients(_, _)
AddClients(tools, clients) ==
    IF clients = <<>> THEN tools
    ELSE AddClients(AddTools(tools, Head(clients).server_name, Head(clients).tools),
                    Tail(clients))

\* ClientManager.get_tools
get_tools(clients) == AddClients(NoTools, clients)

\* The connected clients of the loop's environment, each with the tools its
\* server lists.
RECURSIVE ClientsOf(_)
ClientsOf(connected) ==
    IF connected = {} THEN <<>>
    ELSE LET c == CHOOSE x \in connected : TRUE
         IN  <<Client(c, IF c = <<"fs">>
                         THEN <<Tool(<<"ls">>, <<"List a directory">>)>> ELSE <<>>)>>
             \o ClientsOf(connected \ {c})

NotConnectedMsg(server_name) == <<"Server ">> \o server_name \o <<" is not connected">>

\* ClientManager.call_tool, the except clause: the client's exception becomes
\* an error dict.
ManagerErrorDict(server_name, tool_name, e) ==
    ErrorDict(<<"Error calling tool ">> \o tool_name \o <<" on server ">>
              \o server_name \o <<": ">> \o e)

\* ------------------------------------------------------------- ReActAgent
\* The endurance parameter of the constructor: an integer, or None.
Given(n) == [given |-> TRUE, value |-> n]
NotGiven == [given |-> FALSE, value |-> 0]

\* A value of the loaded agent configuration (yaml.safe_load): absent (None),
\* a string, an integer or a float (held as the text of its literal).
CfgAbsent == [type |-> "NoneType", text |-> <<>>, num |-> 0]
CfgStr(t) == [type |-> "str", text |-> t, num |-> 0]
CfgInt(n) == [type |-> "int", text |-> <<>>, num |-> n]
CfgFloat(t) == [type |-> "float", text |-> t, num |-> 0]

\* if config_endurance:
Truthy(c) ==
    CASE c.type = "NoneType" -> FALSE
      [] c.type = "str" -> c.text # <<>>
      [] c.type = "int" -> c.num # 0
      [] c.type = "float" -> \E i \in 1..Len(c.text) : c.text[i] \in Digits \ {"0"}

\* int(text) succeeds: an optional sign, then digits.
IsIntLiteral(t) ==
    LET u == IF t # <<>> /\ t[1] \in {"-", "+"} THEN Tail(t) ELSE t
    IN  u # <<>> /\ AllDigits(u)

IntOf(t) ==
    IF t[1] = "-" THEN 0 - DecVal(Tail(t))
    ELSE IF t[1] = "+" THEN DecVal(Tail(t)) ELSE DecVal(t)

Parsed(n) == [raised |-> FALSE, value |-> n, error |-> <<>>]
InitRaises(e) == [raised |-> TRUE, value |-> 0, error |-> e]

\* ReActAgent._parse_endurance: .strip() of a value that is no string raises
\* AttributeError, which the except clause (ValueError, TypeError) lets through.
_parse_endurance(arg, config_endurance) ==
    IF arg.given THEN Parsed(arg.value)
    ELSE IF ~Truthy(config_endurance) THEN Parsed(DEFAULT_ENDURANCE)
    ELSE IF config_endurance.type # "str" THEN InitRaises(<<"AttributeError">>)
    ELSE IF IsIntLiteral(strip(config_endurance.text))
         THEN Parsed(IntOf(strip(config_endurance.text)))
         ELSE Parsed(DEFAULT_ENDURANCE)

\* self.max_turns = self.endurance**2
MaxTurns(e) == e * e

\* Mutation: the loop test admits one turn too many.
BadLoopCondition(t, m) == t <= m

\* while turn < self.max_turns
LoopCondition(t, m) == t < m

\* Mutation: a turn is counted twice.
BadNextTurn(t) == t + 2

\* turn += 1
NextTurn(t) == t + 1

\* Mutation: only the text after the marker is returned.
BadFinalReturn(text) == SubSeq(text, Find(text, FINAL, 1) + 1, Len(text))

\* return response (line 745)
FinalReturn(text) == text

ExhaustedMsg == <<"Reached maximum number of turns without a final answer.">>

\* "Final answer:" in response
is_final(text) == Contains(text, FINAL)

\* Mutation: the action is looked for before the final-answer marker.
BadDirective(text) ==
    LET action_match == action_re_search(text)
        parts == split1(strip(action_match.group1), DOT)
    IN  IF ~action_match.found
        THEN (IF is_final(text) THEN [kind |-> "final"] ELSE [kind |-> "none"])
        ELSE IF Len(parts) # 2 THEN [kind |-> "malformed"]
        ELSE [kind |-> "call", server_name |-> parts[1], action_name |-> parts[2],
              args |-> _parse_action_args(strip(action_match.group2))]

\* Mutation: a tool name without the separator is dispatched, its action empty.
DirectiveUnsplit(text) ==
    LET action_match == action_re_search(text)
        parts == split1(strip(action_match.group1), DOT)
    IN  IF is_final(text) THEN [kind |-> "final"]
        ELSE IF ~action_match.found THEN [kind |-> "none"]
        ELSE [kind |-> "call", server_name |-> parts[1],
              action_name |-> IF Len(parts) = 2 THEN parts[2] ELSE <<>>,
              args |-> _parse_action_args(strip(action_match.group2))]

\* _process_llm_response up to the tool call: what the response asks for.
Directive(text) ==
    LET action_match == action_re_search(text)
        full_tool_name == strip(action_match.group1)
        params_str == strip(action_match.group2)
        parts == split1(full_tool_name, DOT)
    IN  IF is_final(text) THEN [kind |-> "final"]
        ELSE IF ~action_match.found THEN [kind |-> "none"]
        ELSE IF Len(parts) # 2 THEN [kind |-> "malformed"]
        ELSE [kind |-> "call", server_name |-> parts[1], action_name |-> parts[2],
              args |-> _parse_action_args(params_str)]

\* Mutation: the response text becomes the next prompt.
BadNoActionPrompt(text, prompt) == text

\* The prompt _process_llm_response hands back when the response holds no
\* directive or a malformed one.
NoActionPrompt(text, prompt) == prompt

\* Mutation: the exception is swallowed and the result left empty.
BadExecutingError(server_name, action_name, e) == StrResult(<<>>)

\* except Exception as e: result = f"Error: Error executing tool ..."
ExecutingError(server_name, action_name, e) ==
    StrResult(<<ERR, "Error executing tool ">> \o server_name \o <<DOT>> \o action_name
              \o <<": ">> \o e)

\* Mutation: the observation replaces the prompt instead of extending it.
BadWithObservation(prompt, result) == <<OBS>> \o Str(result)

\* next_prompt = f"{current_prompt}\r\nObservation: {result}"
WithObservation(prompt, result) == prompt \o <<CRLF, OBS>> \o Str(result)

\* ------------------------------------------------------------------ state
VARIABLES
    endurance,          \* ReActAgent.endurance
    max_turns,          \* ReActAgent.max_turns
    connected_clients,  \* ClientManager.connected_clients (its server names)
    sessions,           \* servers whose MCPClient.session is set
    pc,                 \* where _async_run stands
    question,           \* _async_run: question
    turn,               \* _async_run: turn
    current_prompt,     \* _async_run: current_prompt
    response,           \* _async_run: response
    pending,            \* the tool call _process_llm_response is awaiting
    outcome,            \* how _async_run ended: its return value or exception
    llm_calls,          \* number of llm_agent(...) calls of this run
    sent,               \* the message of the latest llm_agent(...) call
    tool_calls,         \* the client_manager.call_tool calls of this run
    forwarded,          \* those that reached session.call_tool
    observations,       \* the results appended to the prompt in this run
    raised_calls,       \* the tool calls of this run in which an exception was raised
    endurance_arg,      \* ReActAgent.__init__: the endurance parameter
    agent_data,         \* ReActAgent.agent_data.get("endurance")
    texts,              \* the texts the LLM of this agent answers with
    arguments,          \* the arguments of the function applied on its own
    returned,           \* what that function returned
    messages,           \* OpenRouterAgent.messages of the agent's llm_agent
    poller,             \* the voice Assistant: execute_task and its _poll_task_status
    wolt,               \* the wolt server's checkout tool and the POSTs it has sent
    api,                \* the API server: task_results, active_agents, its worker threads
    cm,                 \* a ClientManager: its clients, connected_clients and calls
    starting            \* a call of ReActAgent.initialize on the agent of that manager

vars == <<endurance, max_turns, connected_clients, sessions, pc, question, turn,
          current_prompt, response, pending, outcome, llm_calls, sent, tool_calls,
          forwarded, observations, raised_calls, endurance_arg, agent_data, texts,
          arguments, returned, messages, poller, wolt, api, cm, starting>>

agent == <<endurance, max_turns, connected_clients, sessions, endurance_arg, agent_data>>

\* The parts of the system beside the agent and its loop, and their state
\* where they are not running.
parts == <<poller, wolt, api, cm, starting>>
NoPoller == [pc |-> "none"]
NoWolt == [pc |-> "none"]
NoApi == [up |-> FALSE]
NoManager == [pc |-> "none"]
NoInitialize == [pc |-> "none"]
NoParts ==
    /\ poller = NoPoller
    /\ wolt = NoWolt
    /\ api = NoApi
    /\ cm = NoManager
    /\ starting = NoInitialize

\* What the steps of the loop leave alone.
others == <<texts, arguments, returned, parts>>

NoCall == [server_name |-> <<>>, action_name |-> <<>>, args |-> EmptyDict]
Running == [kind |-> "running", value |-> <<>>]
Return(v) == [kind |-> "return", value |-> v]
Raise(e) == [kind |-> "raise", value |-> e]

\* Nothing handed to a function on its own, and nothing returned yet.
NoInput == <<>>
NoResult == [done |-> FALSE]
Result(v) == [done |-> TRUE, value |-> v]

\* One entry of OpenRouterAgent.messages.
Msg(role, content) == [role |-> role, content |-> content]

\* A transcript that is not followed: the specifications that do not need it
\* leave OpenRouterAgent.messages out.
Untracked == <<Msg("untracked", <<>>)>>

\* self.messages.append(...)
Appended(log, msg) == IF log = Untracked THEN log ELSE Append(log, msg)

\* OpenRouterAgent.__init__: the transcript holds the system prompt.
SystemPrompt == <<Msg("system", <<"You run in a loop of Thought, Action, Observation.">>)>>

\* ReActAgent.__init__ and initialize(): the agent constructed from an
\* endurance parameter and a configuration, every client that connected
\* holding a session.  When __init__ raises there is no agent.
Built(args, configs, script) ==
    /\ endurance_arg \in args
    /\ agent_data \in configs
    /\ LET e == _parse_endurance(endurance_arg, agent_data)
       IN  IF e.raised
           THEN /\ endurance = 0
                /\ max_turns = 0
                /\ pc = "no_agent"
                /\ outcome = Raise(e.error)
           ELSE /\ endurance = e.value
                /\ max_turns = MaxTurns(e.value)
                /\ pc = "idle"
                /\ outcome = Running
    /\ connected_clients \in SUBSET Servers
    /\ sessions = connected_clients
    /\ texts = script
    /\ question = <<>>
    /\ turn = 0
    /\ current_prompt = <<>>
    /\ response = <<>>
    /\ pending = NoCall
    /\ llm_calls = 0
    /\ sent = <<>>
    /\ tool_calls = <<>>
    /\ forwarded = <<>>
    /\ observations = <<>>
    /\ raised_calls = {}
    /\ arguments = NoInput
    /\ returned = NoResult
    /\ NoParts

Constructed(args, configs, script) ==
    /\ Built(args, configs, script)
    /\ messages = Untracked

\* self.actions = self.client_manager.get_tools() (initialize, line 651)
actions == get_tools(ClientsOf(connected_clients))

\* An agent constructed with an endurance.
Init == Constructed({Given(n) : n \in 0..MaxEndurance}, {CfgAbsent}, Contents)

\* _async_run(question), lines 711-717.
StartRun(q) ==
    /\ pc \in {"idle", "done"}
    /\ pc' = "loop"
    /\ question' = q
    /\ turn' = 0
    /\ current_prompt' = q
    /\ response' = <<>>
    /\ pending' = NoCall
    /\ outcome' = Running
    /\ llm_calls' = 0
    /\ sent' = <<>>
    /\ tool_calls' = <<>>
    /\ forwarded' = <<>>
    /\ observations' = <<>>
    /\ raised_calls' = {}
    /\ messages = Untracked \/ Len(messages) <= MaxTranscript
    /\ UNCHANGED <<agent, others, messages>>

\* Lines 720-726: the loop test holds, the turn is counted and the LLM is
\* called with the current prompt.
CallLLM ==
    /\ pc = "loop"
    /\ LoopCondition(turn, max_turns)
    /\ turn' = NextTurn(turn)
    /\ llm_calls' = llm_calls + 1
    /\ sent' = current_prompt
    /\ pc' = "await_llm"
    /\ messages' = Appended(messages, Msg("user", current_prompt))
    /\ UNCHANGED <<agent, others, question, current_prompt, response, pending, outcome,
                   tool_calls, forwarded, observations, raised_calls>>

\* Lines 750-752: the loop test fails.
Exhausted ==
    /\ pc = "loop"
    /\ ~LoopCondition(turn, max_turns)
    /\ outcome' = Return(ExhaustedMsg)
    /\ pc' = "done"
    /\ UNCHANGED <<agent, others, messages, question, turn, current_prompt, response, pending,
                   llm_calls, sent, tool_calls, forwarded, observations, raised_calls>>

\* The observation of a tool call that ends before any await: the server is
\* not connected (ClientManager.call_tool raises ValueError, caught at line
\* 544) or its client holds no session (MCPClient.call_tool raises, caught at
\* client_manager.py line 322).
ImmediateResult(d) ==
    IF d.server_name \notin connected_clients
    THEN ExecutingError(d.server_name, d.action_name, NotConnectedMsg(d.server_name))
    ELSE ManagerErrorDict(d.server_name, d.action_name, <<"Not connected to an MCP server">>)

\* Lines 726-748: the LLM call ends; the response is processed up to the
\* return, the next loop test or the await of the tool.
LLMReturn(o) ==
    /\ pc = "await_llm"
    /\ o.kind = "ok" => o.content \in texts \cup {None}
    /\ LET r == execute(o)
           d == Directive(r)
           call == [server_name |-> d.server_name, action_name |-> d.action_name,
                    args |-> d.args]
       IN  /\ response' = r
           /\ IF ~IsStr(r)
              THEN \* re.search(..., response) raises TypeError (line 729)
                   /\ outcome' = Raise(<<"TypeError">>)
                   /\ pc' = "done"
                   /\ UNCHANGED <<current_prompt, pending, tool_calls, forwarded,
                                  observations, raised_calls>>
              ELSE CASE d.kind = "final" ->
                        /\ outcome' = Return(FinalReturn(r))
                        /\ pc' = "done"
                        /\ UNCHANGED <<current_prompt, pending, tool_calls, forwarded,
                                       observations, raised_calls>>
                     [] d.kind \in {"none", "malformed"} ->
                        /\ current_prompt' = NoActionPrompt(r, current_prompt)
                        /\ pc' = "loop"
                        /\ UNCHANGED <<outcome, pending, tool_calls, forwarded,
                                       observations, raised_calls>>
                     [] d.kind = "call" ->
                        /\ Len(tool_calls) < MaxToolCalls
                        /\ tool_calls' = Append(tool_calls, call)
                        /\ IF d.server_name \in connected_clients
                              /\ d.server_name \in sessions
                           THEN /\ pending' = call
                                /\ forwarded' = Append(forwarded, call)
                                /\ pc' = "await_tool"
                                /\ UNCHANGED <<current_prompt, observations,
                                               raised_calls>>
                           ELSE /\ current_prompt' =
                                     WithObservation(current_prompt, ImmediateResult(d))
                                /\ observations' =
                                     Append(observations, Str(ImmediateResult(d)))
                                /\ raised_calls' =
                                     raised_calls \cup {Len(tool_calls) + 1}
                                /\ pc' = "loop"
                                /\ UNCHANGED <<pending, forwarded>>
                        /\ UNCHANGED outcome
    /\ messages' = Appended(messages, Msg("assistant", execute(o)))
    /\ UNCHANGED <<agent, others, question, turn, llm_calls, sent>>

\* Lines 541-552 and 748: session.call_tool ends; MCPClient.call_tool and
\* ClientManager.call_tool hand the result up and the observation is appended.
ToolReturn(o) ==
    /\ pc = "await_tool"
    /\ o \in SessionOutcomes(pending.server_name, pending.action_name)
    /\ LET result == MCPClient_call_tool(o)
       IN  /\ current_prompt' = WithObservation(current_prompt, result)
           /\ observations' = Append(observations, Str(result))
    /\ raised_calls' =
         IF o.kind = "raise" THEN raised_calls \cup {Len(tool_calls)} ELSE raised_calls
    /\ pending' = NoCall
    /\ pc' = "loop"
    /\ UNCHANGED <<agent, others, messages, question, turn, response, outcome, llm_calls, sent,
                   tool_calls, forwarded>>

AllSessionOutcomes ==
    UNION {SessionOutcomes(s, t) : s \in Servers, t \in {<<"ls">>, <<"rm">>}}

Next ==
    \/ \E q \in Questions : StartRun(q)
    \/ CallLLM
    \/ Exhausted
    \/ \E o \in LLMOutcomes : LLMReturn(o)
    \/ \E o \in AllSessionOutcomes : ToolReturn(o)

Spec == Init /\ [][Next]_vars

\* An agent constructed with or without an endurance, from a configuration
\* that may hold one.
EnduranceArgs == {NotGiven} \cup {Given(n) : n \in 0..MaxEndurance}

ConfiguredEndurances ==
    {CfgAbsent, CfgStr(<<SP, "2", SP>>), CfgStr(<<"2", DOT, "5">>), CfgInt(3),
     CfgFloat(<<"2", DOT, "5">>)}

InitBudget == Constructed(EnduranceArgs, ConfiguredEndurances, {T_plain, T_final, T_act})

SpecBudget == InitBudget /\ [][Next]_vars

\* An agent whose transcript is followed, over runs of at most 4 turns.
InitTranscript ==
    /\ Built({Given(1), Given(2)}, {CfgAbsent}, {T_plain, T_final, T_act})
    /\ messages = SystemPrompt

SpecTranscript == InitTranscript /\ [][Next]_vars

\* ------------------------------------------- functions applied on their own
\* No agent is running.
NoAgent ==
    /\ endurance_arg = NotGiven
    /\ agent_data = CfgAbsent
    /\ endurance = 0
    /\ max_turns = 0
    /\ connected_clients = {}
    /\ sessions = {}
    /\ texts = {}
    /\ pc = "no_agent"
    /\ question = <<>>
    /\ turn = 0
    /\ current_prompt = <<>>
    /\ response = <<>>
    /\ pending = NoCall
    /\ outcome = Running
    /\ llm_calls = 0
    /\ sent = <<>>
    /\ tool_calls = <<>>
    /\ forwarded = <<>>
    /\ observations = <<>>
    /\ raised_calls = {}
    /\ messages = Untracked

\* A function of the program is applied to arguments drawn from inputs.
Applying(inputs) ==
    /\ arguments \in inputs
    /\ returned = NoResult
    /\ NoAgent
    /\ NoParts

\* The variables of the agent and its run, and with the other parts what a
\* function applied on its own leaves alone.
running == <<agent, messages, texts, pc, question, turn, current_prompt, response, pending,
             outcome, llm_calls, sent, tool_calls, forwarded, observations, raised_calls>>
loop == <<running, parts>>

\* The tool lists a server answers list_tools with.
ListedTools ==
    {Tool(<<"ls">>, <<"List a directory">>), Tool(<<"ls">>, <<"List sessions">>),
     Tool(<<"rm">>, <<"Remove a file">>)}

RECURSIVE SeqsUpTo(_, _)
SeqsUpTo(S, n) ==
    IF n = 0 THEN {<<>>}
    ELSE SeqsUpTo(S, n - 1)
         \cup {Append(q, x) : q \in {r \in SeqsUpTo(S, n - 1) : Len(r) = n - 1}, x \in S}

\* Two connected clients, each with up to MaxListed tools.
ClientLists ==
    {<<Client(<<"fs">>, a), Client(<<"web">>, b)>> :
        a \in SeqsUpTo(ListedTools, MaxListed), b \in SeqsUpTo(ListedTools, MaxListed)}

InitRegistry == Applying(ClientLists)

\* get_tools() on the connected clients.
GetTools ==
    /\ returned = NoResult
    /\ returned' = Result(get_tools(arguments))
    /\ UNCHANGED <<loop, arguments>>

NextRegistry == GetTools

SpecRegistry == InitRegistry /\ [][NextRegistry]_vars

\* A well-formed directive line 'Action: [a.b|k1:v1,k2:v2]'.
DirectiveLine(p) ==
    <<ACT>> \o p.a \o <<DOT>> \o p.b \o <<BAR>> \o p.k1 \o <<COLON>> \o p.v1
            \o <<COMMA>> \o p.k2 \o <<COLON>> \o p.v2 \o <<CLOSE>>

\* Argument values: up to MaxValueLen symbols of a digit, the point and a word.
ArgValues == SeqsUpTo({"1", DOT, "x"}, MaxValueLen)

\* The parts of the lines: a namespace, an action (with or without a dot of
\* its own), two keys (equal or not) and two values.
DirectiveParts ==
    [a : {<<"fs">>, <<"w", "1">>},
     b : {<<"ls">>, <<"ls", DOT, "v2">>, <<DOT, "ls">>},
     k1 : {<<"k">>},
     v1 : ArgValues,
     k2 : {<<"k">>, <<"n">>},
     v2 : ArgValues]

InitLine == Applying(DirectiveParts)

\* _process_llm_response on the line, up to the call.
ParseLine ==
    /\ returned = NoResult
    /\ returned' = Result(Directive(DirectiveLine(arguments)))
    /\ UNCHANGED <<loop, arguments>>

NextLine == ParseLine

SpecLine == InitLine /\ [][NextLine]_vars

\* Raw argument strings: every text of up to MaxArgLen symbols over a word, a
\* digit, zero, the point, the colon, the comma and the blank; None; and the
\* strings of the documentation.
ArgExamples ==
    {<<"path", COLON, "C", COLON, "/data">>,
     <<"lat", COLON, "4", "7", DOT, "5", COMMA, "n", COLON, "1", "0", COMMA,
       "s", COLON, "abc">>,
     <<"note", COLON, "city", COLON, "center", COMMA, SP, "flag", COMMA, COMMA,
       "n", COLON, SP, "1", "0", DOT, "0", SP>>}

RawArgs ==
    SeqsUpTo({"k", "1", "0", DOT, COLON, COMMA, SP}, MaxArgLen)
    \cup ArgExamples \cup {None}

InitArgs == Applying(RawArgs)

\* _parse_action_args(action_args)
ParseArgs ==
    /\ returned = NoResult
    /\ returned' = Result(_parse_action_args(arguments))
    /\ UNCHANGED <<loop, arguments>>

NextArgs == ParseArgs

SpecArgs == InitArgs /\ [][NextArgs]_vars

\* An agent whose LLM answers with several directives in one response.
InitSeq == Constructed({Given(n) : n \in 0..MaxEndurance}, {CfgAbsent}, ContentsSeq)

SpecSeq == InitSeq /\ [][Next]_vars

\* ---- the voice assistant's task poller (livekit-voice-ai/real-time.py)

max_retries == 30
poll_interval == 1

\* dict.get(key, default) on a decoded JSON object whose key may be missing.
Missing == "<missing>"
Get(value, default) == IF value = Missing THEN default ELSE value

\* What the API answers to POST /tasks and to GET /tasks/{id}, as the
\* assistant sees it: the request raises, or a response with an HTTP status
\* and (when 200) a JSON body.
HttpResponse(http, status, value) ==
    [kind |-> "response", http |-> http, status |-> status, value |-> value]
HttpRaise == [kind |-> "raise", http |-> 0, status |-> Missing, value |-> Missing]

PostResponses ==
    {HttpRaise, HttpResponse(500, Missing, Missing),
     HttpResponse(200, Missing, Missing), HttpResponse(200, Missing, "t1")}

TaskStatuses == {"queued", "processing", "completed", "error", "cancelled", Missing}
TaskResults == {Missing, "42"}
StatusResponses ==
    {HttpRaise, HttpResponse(404, Missing, Missing), HttpResponse(500, Missing, Missing)}
    \cup {HttpResponse(200, st, r) : st \in TaskStatuses, r \in TaskResults}

FinalMessage(kind, detail) == [kind |-> kind, detail |-> detail]
UnknownStatus == FinalMessage("unknown_status", Missing)
TakingLonger == FinalMessage("taking_longer", Missing)

\* The agent session when the result is reported: generate_reply returns,
\* generate_reply raises, or there is no session.
SessionStates == {"replies", "raises", "unavailable"}

\* Mutant: the loop runs once more.
OneMoreRetry(n) == n <= max_retries

\* for _ in range(max_retries): another iteration after n of them.
MoreRetries(n) == n < max_retries

PollerIdle ==
    [pc |-> "idle", reply |-> Missing, requests |-> 0, clock |-> 0,
     last |-> HttpRaise, stopped |-> FALSE, final_message |-> UnknownStatus,
     reported |-> <<>>]

\* Assistant.execute_task: one POST; the poller is started only for a 200
\* response that carries a task id.
ExecuteTask(post) ==
    /\ poller.pc = "idle"
    /\ poller' =
         IF post.kind = "raise"
           THEN [poller EXCEPT !.pc = "not_started", !.reply = "Error initiating task"]
         ELSE IF post.http # 200
           THEN [poller EXCEPT !.pc = "not_started", !.reply = "Error creating task"]
         ELSE IF post.value = Missing
           THEN [poller EXCEPT !.pc = "not_started",
                               !.reply = "Error: Could not initiate task."]
         ELSE [poller EXCEPT !.pc = "sleep", !.reply = "accepted"]

\* One iteration begins: asyncio.sleep(poll_interval) before the request.
Sleep ==
    /\ poller.pc = "sleep"
    /\ MoreRetries(poller.requests)
    /\ poller' = [poller EXCEPT !.pc = "request", !.clock = @ + poll_interval]

\* The for loop ran out without a break: its else branch.
TimedOut ==
    /\ poller.pc = "sleep"
    /\ ~MoreRetries(poller.requests)
    /\ poller' = [poller EXCEPT !.pc = "report", !.final_message = TakingLonger]

\* What one status response does to the poller.
Polled(p, resp) ==
    LET q == [p EXCEPT !.requests = @ + 1, !.last = resp] IN
    IF resp.kind = "raise"
      THEN [q EXCEPT !.pc = "report",
                     !.final_message = FinalMessage("polling_error", Missing)]
    ELSE IF resp.http # 200 THEN [q EXCEPT !.pc = "sleep"]
    ELSE IF resp.status = "completed"
      THEN [q EXCEPT !.pc = "report", !.stopped = TRUE,
                     !.final_message =
                         FinalMessage("result", Get(resp.value, "No result provided"))]
    ELSE IF resp.status = "error"
      THEN [q EXCEPT !.pc = "report", !.stopped = TRUE,
                     !.final_message =
                         FinalMessage("task_failed", Get(resp.value, "Unknown error"))]
    ELSE [q EXCEPT !.pc = "sleep"]

\* session.get of the task's status and the branches on its response.
Poll(resp) ==
    /\ poller.pc = "request"
    /\ poller' = Polled(poller, resp)

\* The final message is reported: through the session when there is one,
\* printed otherwise; a raising generate_reply is caught and logged.
Report(s) ==
    /\ poller.pc = "report"
    /\ poller' =
         [poller EXCEPT !.pc = "done",
                        !.reported =
                            Append(@, [message |-> poller.final_message,
                                       channel |-> IF s = "unavailable"
                                                     THEN "print" ELSE "session",
                                       failed |-> s = "raises"])]

InitPoller ==
    /\ NoAgent
    /\ arguments = NoInput
    /\ returned = NoResult
    /\ poller = PollerIdle
    /\ wolt = NoWolt
    /\ api = NoApi
    /\ cm = NoManager
    /\ starting = NoInitialize

NextPoller ==
    /\ \/ \E post \in PostResponses : ExecuteTask(post)
       \/ Sleep
       \/ TimedOut
       \/ \E resp \in StatusResponses : Poll(resp)
       \/ \E s \in SessionStates : Report(s)
    /\ UNCHANGED <<running, arguments, returned, wolt, api, cm, starting>>

SpecPoller == InitPoller /\ [][NextPoller]_vars

\* Each await of the poller returns: the sleep ends, the request is answered
\* or raises, generate_reply returns or raises.
SpecPollerLive == SpecPoller /\ WF_vars(NextPoller)

\* ---- the wolt server's checkout tool (wolt/wolt.py)

\* Python values a purchase plan can hold under 'dev_mode'.
PyValue(type, num, text) == [type |-> type, num |-> num, text |-> text]
PyBool(b) == PyValue("bool", IF b THEN 1 ELSE 0, "")
PyInt(n) == PyValue("int", n, "")
PyStr(t) == PyValue("str", 0, t)
PyAbsent == PyValue("absent", 0, "")

\* a == b of Python: a bool is an int, True == 1; a str equals only a str.
PyEq(a, b) ==
    IF a.type \in {"bool", "int"} /\ b.type \in {"bool", "int"} THEN a.num = b.num
    ELSE a.type = b.type /\ a.num = b.num /\ a.text = b.text

PurchasePlan(basket, dev) == [basket_id |-> basket, dev_mode |-> dev]
PurchasePlans ==
    {PurchasePlan(b, d) :
        b \in {"680bdf60", "77aa01"},
        d \in {PyAbsent, PyBool(TRUE), PyBool(FALSE), PyInt(1), PyInt(0), PyStr("True")}}

\* Mutant: the safety check is gone.
NeverBlocked(plan) == FALSE

\* "dev_mode" in purchase_plan and purchase_plan["dev_mode"] == True
Blocked(plan) == plan.dev_mode # PyAbsent /\ PyEq(plan.dev_mode, PyBool(TRUE))

CheckoutBlocked == [error |-> TRUE, value |-> "Checkout blocked: dev_mode flag is set to True"]

\* What the POST ends with: the response's JSON, or an exception (of the
\* transport or of raise_for_status) turned into an error object.
PostResults ==
    {[error |-> FALSE, value |-> "order placed"], [error |-> TRUE, value |-> "401"],
     [error |-> TRUE, value |-> "timed out"]}

WoltIdle == [pc |-> "idle", calls |-> <<>>, posts |-> <<>>, results |-> <<>>]

\* wolt_checkout up to its return or its POST.
Checkout(plan) ==
    /\ wolt.pc = "idle"
    /\ Len(wolt.calls) < MaxCheckouts
    /\ wolt' =
         IF Blocked(plan)
           THEN [wolt EXCEPT !.calls = Append(@, plan),
                             !.results = Append(@, CheckoutBlocked)]
           ELSE [wolt EXCEPT !.pc = "await_post", !.calls = Append(@, plan),
                             !.posts = Append(@, plan)]

\* The POST to the checkout endpoint returns or raises.
PostReturn(r) ==
    /\ wolt.pc = "await_post"
    /\ wolt' = [wolt EXCEPT !.pc = "idle", !.results = Append(@, r)]

InitWolt ==
    /\ NoAgent
    /\ arguments = NoInput
    /\ returned = NoResult
    /\ poller = NoPoller
    /\ wolt = WoltIdle
    /\ api = NoApi
    /\ cm = NoManager
    /\ starting = NoInitialize

NextWolt ==
    /\ \/ \E plan \in PurchasePlans : Checkout(plan)
       \/ \E r \in PostResults : PostReturn(r)
    /\ UNCHANGED <<running, arguments, returned, poller, api, cm, starting>>

SpecWolt == InitWolt /\ [][NextWolt]_vars

\* ---- the API server (meta_cortex/api_server.py)

\* An exception's str(e), word by word.
E_FailedToConnect == <<"Failed", "to", "connect", "to", "filesystem", "server">>
E_LoopRunning == <<"This", "event", "loop", "is", "already", "running">>
E_NoneContent == <<"argument", "of", "type", "'NoneType'", "is", "not", "iterable">>
E_NoneAgent == <<"'NoneType'", "object", "has", "no", "attribute", "'initialized'">>
E_NotInitialized == <<"Agent", "not", "properly", "initialized">>
E_ServerNotConnected == <<"Server", "filesystem", "is", "not", "connected">>
NoError == <<>>

\* needle in text
In(needle, text) ==
    \E i \in 1..(Len(text) - Len(needle) + 1) :
        SubSeq(text, i, i + Len(needle) - 1) = needle

\* What initialize_agent ends with: an initialized agent, its filesystem
\* server connected or not, or the exception of the failed initialization.
AgentReady(fs) == [kind |-> "return", filesystem |-> fs, error |-> NoError]
AgentFailed(e) == [kind |-> "raise", filesystem |-> FALSE, error |-> e]
InitOutcomes ==
    {AgentReady(TRUE), AgentReady(FALSE)}
    \cup {AgentFailed(E_FailedToConnect)}

\* What agent.run ends with: the string it returns (a final answer or the
\* exhaustion message), or the exception it lets through.
RunReturned(value) == [kind |-> "return", value |-> value, error |-> NoError]
RunRaised(e) == [kind |-> "raise", value |-> <<>>, error |-> e]
RunOutcomes ==
    {RunReturned(<<"Final", "answer:", "42">>),
     RunReturned(<<"Reached", "maximum", "number", "of", "turns">>),
     RunRaised(E_NoneContent)}

TaskIds == 1..MaxTasks
NoTask == 0

\* task_results[task_id] = {"status": ..., "result": ...}
TaskInfo(status, result) == [status |-> status, result |-> result]
NotStored == TaskInfo("absent", <<>>)

\* Mutant: an error is logged and not stored.
StoreUnlessError(results, t, status, result) ==
    IF status = "error" THEN results
    ELSE [results EXCEPT ![t] = TaskInfo(status, result)]

Store(results, t, status, result) == [results EXCEPT ![t] = TaskInfo(status, result)]

\* A ReActAgent made by initialize_agent, named after the task that made it.
NoAgentYet == [state |-> "none", filesystem |-> FALSE, runs |-> {}]

\* A worker thread of process_task_wrapper: its position, its local agent,
\* the exception it is handling, and whether a tool call of its run was
\* refused because the filesystem server is not connected.
Thread(at, a, e, met) == [pc |-> at, agent |-> a, error |-> e, refused |-> met]
NoThread == Thread("absent", NoTask, NoError, FALSE)
Finished == Thread("done", NoTask, NoError, FALSE)

ApiUp ==
    [up |-> TRUE,
     task_results |-> [t \in TaskIds |-> NotStored],
     global_agent |-> NoTask,
     agents |-> [t \in TaskIds |-> NoAgentYet],
     threads |-> [t \in TaskIds |-> NoThread],
     got |-> [task_id |-> NoTask, http |-> 0]]

\* POST /tasks: a new id is stored as queued and its processing is handed to
\* the thread pool.
create_task(t) ==
    /\ api.up
    /\ api.task_results[t] = NotStored
    /\ \A u \in TaskIds : u < t => api.task_results[u] # NotStored
    /\ api' = [api EXCEPT !.task_results = Store(@, t, "queued", <<>>),
                          !.threads[t] = Thread("start", NoTask, NoError, FALSE)]

\* Mutant: an unknown id is answered like a stored one.
AnswerAll(results, id) == [task_id |-> id, http |-> 200]

\* GET /tasks/{task_id}: the status code of the answer (a 200 answer holds
\* the stored status and result as they are).
Answer(results, id) ==
    IF id \notin TaskIds \/ results[id] = NotStored
      THEN [task_id |-> id, http |-> 404]
      ELSE [task_id |-> id, http |-> 200]

get_task(id) ==
    /\ api.up
    /\ api' = [api EXCEPT !.got = Answer(api.task_results, id)]

\* process_task: the test of the global_agent slot.
TestSlot(t) ==
    /\ api.up
    /\ api.threads[t].pc = "start"
    /\ api' = IF api.global_agent = NoTask
                THEN [api EXCEPT !.threads[t].pc = "initialize",
                                 !.agents[t].state = "initializing"]
                ELSE [api EXCEPT !.threads[t].pc = "read"]

\* initialize_agent returns and the slot is set, or it cleans its agent up
\* and raises.
InitializeReturn(t, o) ==
    /\ api.up
    /\ api.threads[t].pc = "initialize"
    /\ api' = IF o.kind = "return"
                THEN [api EXCEPT !.threads[t].pc = "read",
                                 !.agents[t].state = "initialized",
                                 !.agents[t].filesystem = o.filesystem,
                                 !.global_agent = t]
                ELSE [api EXCEPT !.threads[t].pc = "except",
                                 !.threads[t].error = o.error,
                                 !.agents[t].state = "cleaned"]

\* agent = active_agents["global_agent"], and the task is marked processing.
ReadSlot(t) ==
    /\ api.up
    /\ api.threads[t].pc = "read"
    /\ api' = [api EXCEPT !.threads[t].pc = "verify",
                          !.threads[t].agent = api.global_agent,
                          !.task_results = Store(@, t, "processing", <<>>)]

\* agent.initialized is tested and agent.run is entered: run_until_complete
\* on a loop another thread is running raises, unless both threads passed
\* its test together.
EnterRun(t, together) ==
    /\ api.up
    /\ api.threads[t].pc = "verify"
    /\ LET a == api.threads[t].agent IN
       api' =
         IF a = NoTask
           THEN [api EXCEPT !.threads[t].pc = "except", !.threads[t].error = E_NoneAgent]
         ELSE IF api.agents[a].state # "initialized"
           THEN [api EXCEPT !.threads[t].pc = "except",
                            !.threads[t].error = E_NotInitialized]
         ELSE IF api.agents[a].runs # {} /\ ~together
           THEN [api EXCEPT !.threads[t].pc = "except", !.threads[t].error = E_LoopRunning]
         ELSE [api EXCEPT !.threads[t].pc = "running", !.agents[a].runs = @ \cup {t}]

\* During the run a tool call for the filesystem server is dispatched while
\* the server is not in connected_clients: call_tool raises 'Server
\* filesystem is not connected', _process_llm_response catches it and the
\* loop goes on with the error as its observation.
ToolRefused(t) ==
    /\ api.up
    /\ api.threads[t].pc = "running"
    /\ ~api.threads[t].refused
    /\ ~api.agents[api.threads[t].agent].filesystem
    /\ api' = [api EXCEPT !.threads[t].refused = TRUE]

\* agent.run returns its string, which is stored as completed, or raises.
RunReturn(t, o) ==
    /\ api.up
    /\ api.threads[t].pc = "running"
    /\ LET a == api.threads[t].agent IN
       api' =
         IF o.kind = "return"
           THEN [api EXCEPT !.threads[t] = Finished,
                            !.agents[a].runs = @ \ {t},
                            !.task_results = Store(@, t, "completed", o.value)]
           ELSE [api EXCEPT !.threads[t] = Thread("except", a, o.error, FALSE),
                            !.agents[a].runs = @ \ {t}]

\* The global agent after process_task's handling of an exception e.
Handled(a, e) ==
    IF In(E_ServerNotConnected, e)
      THEN [a EXCEPT !.global_agent = NoTask,
                     !.agents = [u \in TaskIds |->
                                    IF u = a.global_agent
                                      THEN [a.agents[u] EXCEPT !.state = "cleaned"]
                                      ELSE a.agents[u]]]
      ELSE a

\* except Exception in process_task.
HandleException(t) ==
    /\ api.up
    /\ api.threads[t].pc = "except"
    /\ LET e == api.threads[t].error
           h == Handled(api, e)
       IN  api' = [h EXCEPT !.threads[t] = Finished,
                            !.task_results = Store(@, t, "error", <<"Error:">> \o e)]

InitApi ==
    /\ NoAgent
    /\ arguments = NoInput
    /\ returned = NoResult
    /\ poller = NoPoller
    /\ wolt = NoWolt
    /\ api = ApiUp
    /\ cm = NoManager
    /\ starting = NoInitialize

ThreadStep(t) ==
    \/ TestSlot(t)
    \/ \E o \in InitOutcomes : InitializeReturn(t, o)
    \/ ReadSlot(t)
    \/ \E together \in BOOLEAN : EnterRun(t, together)
    \/ ToolRefused(t)
    \/ \E o \in RunOutcomes : RunReturn(t, o)
    \/ HandleException(t)

NextApi ==
    /\ \/ \E t \in TaskIds : create_task(t)
       \/ \E id \in TaskIds \cup {NoTask} : get_task(id)
       \/ \E t \in TaskIds : ThreadStep(t)
    /\ UNCHANGED <<running, arguments, returned, poller, wolt, cm, starting>>

SpecApi == InitApi /\ [][NextApi]_vars

\* The thread pool goes on running the threads it was handed, and every
\* call a thread waits for returns.
Working ==
    /\ \E t \in TaskIds : ThreadStep(t)
    /\ UNCHANGED <<running, arguments, returned, poller, wolt, cm, starting>>

\* The tasks alone, without the clients' GETs, which change no task.
NextTasks ==
    /\ \/ \E t \in TaskIds : create_task(t)
       \/ \E t \in TaskIds : ThreadStep(t)
    /\ UNCHANGED <<running, arguments, returned, poller, wolt, cm, starting>>

SpecApiLive == InitApi /\ [][NextTasks]_vars /\ WF_vars(Working)

\* ---- a ClientManager on its own (meta_cortex/client_manager.py)

\* config["mcpServers"], in the order of the file.
ServerNames == <<"filesystem", "wolt", "browser", "memory">>
McpServers == SubSeq(ServerNames, 1, MaxServers)
Configured == {McpServers[i] : i \in 1..Len(McpServers)}

\* The servers of a set in the order of the configuration.
RECURSIVE Ordered(_, _)
Ordered(names, S) ==
    IF names = <<>> THEN <<>>
    ELSE (IF Head(names) \in S THEN <<Head(names)>> ELSE <<>>) \o Ordered(Tail(names), S)

\* clients[server]: no entry, or an MCPClient that is new (no exit_stack),
\* connected (exit_stack and session set), failed in connect_to_server
\* (exit_stack set) or closed (exit_stack, session, stdio and write None).
\* connected_clients[server]: no entry, the same object as clients[server],
\* or a connected object that create_clients has since replaced in clients.
HasExitStack(client) == client \in {"connected", "failed"}

Manager(valid) ==
    [pc |-> "idle", valid |-> valid, loaded |-> FALSE, todo |-> <<>>,
     then_connect |-> FALSE,
     clients |-> [n \in Configured |-> "absent"],
     connected_clients |-> [n \in Configured |-> "absent"],
     succeeded |-> {}, closed |-> FALSE, outcomes |-> {},
     last |-> [server |-> "", kind |-> "none"]]

ClientNames(m) == {n \in Configured : m.clients[n] # "absent"}
ConnectedNames(m) == {n \in Configured : m.connected_clients[n] # "absent"}

\* The loop over the clients is over, or goes on with the next server.
Rest(m) ==
    IF Len(m.todo) > 1 THEN [m EXCEPT !.todo = Tail(@)]
    ELSE IF m.pc = "creating" /\ m.then_connect /\ ClientNames(m) # {}
      THEN [m EXCEPT !.pc = "connecting", !.then_connect = FALSE,
                     !.todo = Ordered(McpServers, ClientNames(m))]
    ELSE [m EXCEPT !.pc = "idle", !.todo = <<>>, !.then_connect = FALSE]

\* A loop over no server is over at once.
Begun(m) == IF m.todo = <<>> THEN Rest(m) ELSE m

\* create_clients is called (the configuration is loaded if it was not);
\* start calls it and then connect_all_clients.
BeginCreate(start) ==
    /\ cm.pc = "idle"
    /\ cm' = Begun([cm EXCEPT !.pc = "creating", !.loaded = TRUE, !.todo = McpServers,
                              !.then_connect = start, !.closed = FALSE])

\* One iteration of create_clients: MCPClient(command, args) raises for a
\* server whose command is not valid, and the loop goes on.
CreateStep ==
    /\ cm.pc = "creating"
    /\ cm.todo # <<>>
    /\ LET n == Head(cm.todo) IN
       cm' = IF n \in cm.valid
               THEN Rest([cm EXCEPT !.clients[n] = "new",
                                    !.connected_clients[n] =
                                        IF @ = "absent" THEN "absent" ELSE "replaced"])
               ELSE Rest(cm)

\* connect_all_clients is called: a manager without clients and without a
\* configuration loads and creates first.
BeginConnect ==
    /\ cm.pc = "idle"
    /\ cm' = IF ClientNames(cm) = {} /\ ~cm.loaded
               THEN Begun([cm EXCEPT !.pc = "creating", !.loaded = TRUE,
                                     !.todo = McpServers, !.then_connect = TRUE,
                                     !.closed = FALSE])
               ELSE Begun([cm EXCEPT !.pc = "connecting", !.closed = FALSE,
                                     !.todo = Ordered(McpServers, ClientNames(cm))])

\* Mutant: the first failure ends the loop.
AfterFailureStop(m) == [m EXCEPT !.pc = "idle", !.todo = <<>>]

\* except Exception in the loop of connect_all_clients: printed, and the
\* loop goes on.
AfterFailure(m) == Rest(m)

\* One iteration of connect_all_clients: connect_to_server returns or raises.
ConnectStep(ok) ==
    /\ cm.pc = "connecting"
    /\ cm.todo # <<>>
    /\ LET n == Head(cm.todo) IN
       cm' = IF ok
               THEN Rest([cm EXCEPT !.clients[n] = "connected",
                                    !.connected_clients[n] = "same",
                                    !.succeeded = @ \cup {n}])
               ELSE AfterFailure([cm EXCEPT !.clients[n] = "failed"])

\* close_all_clients is called: one close task for each client that has an
\* exit_stack.
BeginClose ==
    /\ cm.pc = "idle"
    /\ cm' = [cm EXCEPT !.pc = "closing", !.outcomes = {},
                        !.todo = Ordered(McpServers,
                                         {n \in Configured : HasExitStack(cm.clients[n])})]

\* One close task ends: client.close() returned, raised, or was still
\* pending after 3 seconds and was cancelled; the client's exit_stack and
\* session are None in each case.
CloseOutcomes == {"closed", "raised", "cancelled"}

CloseStep(o) ==
    /\ cm.pc = "closing"
    /\ cm.todo # <<>>
    /\ cm' = [cm EXCEPT !.clients[Head(cm.todo)] = "closed", !.todo = Tail(@),
                        !.outcomes = @ \cup {o}]

\* Mutant: only the clients that were closed leave the dictionaries.
ClearedClosed(m) ==
    [m EXCEPT !.clients = [n \in Configured |-> IF m.clients[n] = "closed"
                                                  THEN "absent" ELSE m.clients[n]],
              !.connected_clients =
                  [n \in Configured |-> IF m.clients[n] = "closed"
                                          THEN "absent" ELSE m.connected_clients[n]]]

\* self.clients = {}; self.connected_clients = {}
Cleared(m) ==
    [m EXCEPT !.clients = [n \in Configured |-> "absent"],
              !.connected_clients = [n \in Configured |-> "absent"]]

\* close_all_clients returns.
EndClose ==
    /\ cm.pc = "closing"
    /\ cm.todo = <<>>
    /\ cm' = [Cleared(cm) EXCEPT !.pc = "idle", !.succeeded = {}, !.closed = TRUE]

\* Mutant: a server is refused when it has no client.
RefusesUncreated(m, server) == server \notin ClientNames(m)

\* if server_name not in self.connected_clients: raise ValueError
Refuses(m, server) == server \notin ConnectedNames(m)

\* ClientManager.call_tool: the call is refused, or handed to the client.
call_tool(server) ==
    /\ cm.pc = "idle"
    /\ cm' = [cm EXCEPT !.last =
                 [server |-> server,
                  kind |-> IF Refuses(cm, server) THEN "not_connected" ELSE "forwarded"]]

InitManager ==
    /\ NoAgent
    /\ arguments = NoInput
    /\ returned = NoResult
    /\ poller = NoPoller
    /\ wolt = NoWolt
    /\ api = NoApi
    /\ starting = NoInitialize
    /\ \E valid \in SUBSET Configured : cm = Manager(valid)

NextManager ==
    /\ \/ \E start \in BOOLEAN : BeginCreate(start)
       \/ CreateStep
       \/ BeginConnect
       \/ \E ok \in BOOLEAN : ConnectStep(ok)
       \/ BeginClose
       \/ \E o \in CloseOutcomes : CloseStep(o)
       \/ EndClose
       \/ \E server \in Configured \cup {"unknown"} : call_tool(server)
    /\ UNCHANGED <<running, arguments, returned, poller, wolt, api, starting>>

SpecManager == InitManager /\ [][NextManager]_vars

\* ---- ReActAgent.initialize on an agent and its client manager

\* for attempt in range(max_retries)
initialize_max_retries == 3

E_TimedOut == <<"Initialization", "timed", "out">>
E_NoIsConnected ==
    <<"'ClientManager'", "object", "has", "no", "attribute", "'is_connected'">>
E_UnexpectedVerbose ==
    <<"__init__()", "got", "an", "unexpected", "keyword", "argument", "'verbose'">>

\* initialize is called: attempt is the loop variable, attempts counts the
\* attempts begun, in_time tells that start() returned within the timeout
\* with the filesystem server in connected_clients, managers counts the
\* client managers the agent has had.
Initialize ==
    [pc |-> "loop", attempt |-> 0, attempts |-> 0, last_error |-> NoError,
     raised |-> NoError, in_time |-> FALSE, managers |-> 1]

\* An attempt begins: _async_initialize awaits client_manager.start().
BeginAttempt ==
    /\ starting.pc = "loop"
    /\ starting.attempt < initialize_max_retries
    /\ BeginCreate(TRUE)
    /\ starting' = [starting EXCEPT !.pc = "start", !.attempts = @ + 1]

\* start() goes on: one client is created, or one connect returns or raises.
StartStep ==
    /\ starting.pc = "start"
    /\ \/ CreateStep
       \/ \E ok \in BOOLEAN : ConnectStep(ok)
    /\ UNCHANGED starting

\* asyncio.wait_for cancels the attempt at the timeout, while start() is
\* creating or connecting: the client being connected may already hold an
\* exit_stack.
Timeout ==
    /\ starting.pc = "start"
    /\ cm.pc \in {"creating", "connecting"}
    /\ \E entered \in BOOLEAN :
         cm' = [cm EXCEPT !.pc = "idle", !.todo = <<>>, !.then_connect = FALSE,
                          !.clients = IF cm.pc = "connecting" /\ entered
                                        THEN [@ EXCEPT ![Head(cm.todo)] = "failed"]
                                        ELSE @]
    /\ starting' = [starting EXCEPT !.pc = "failed", !.last_error = E_TimedOut]

\* start() has returned: self.client_manager.is_connected("filesystem") is
\* evaluated, and ClientManager has no such method.
Verify ==
    /\ starting.pc = "start"
    /\ cm.pc = "idle"
    /\ starting' = [starting EXCEPT !.pc = "failed", !.last_error = E_NoIsConnected,
                                    !.in_time = "filesystem" \in ConnectedNames(cm)]
    /\ UNCHANGED cm

\* if attempt < max_retries - 1: close_all_clients of the old manager;
\* after the last attempt: raise last_error.
Retry ==
    /\ starting.pc = "failed"
    /\ IF starting.attempt < initialize_max_retries - 1
         THEN /\ BeginClose
              /\ starting' = [starting EXCEPT !.pc = "closing"]
         ELSE /\ starting' = [starting EXCEPT !.pc = "raised", !.raised = @.last_error]
              /\ UNCHANGED cm

\* close_all_clients goes on and returns.
Closing ==
    /\ starting.pc = "closing"
    /\ \/ /\ \E o \in CloseOutcomes : CloseStep(o)
          /\ UNCHANGED starting
       \/ /\ EndClose
          /\ starting' = [starting EXCEPT !.pc = "replace"]

\* self.client_manager = ClientManager(self.config_path, verbose=self.verbose):
\* __init__ takes no verbose, and the TypeError leaves initialize.
Replace ==
    /\ starting.pc = "replace"
    /\ starting' = [starting EXCEPT !.pc = "raised", !.raised = E_UnexpectedVerbose]
    /\ UNCHANGED cm

InitInitialize ==
    /\ NoAgent
    /\ arguments = NoInput
    /\ returned = NoResult
    /\ poller = NoPoller
    /\ wolt = NoWolt
    /\ api = NoApi
    /\ \E valid \in SUBSET Configured : cm = Manager(valid)
    /\ starting = Initialize

NextInitialize ==
    /\ \/ BeginAttempt
       \/ StartStep
       \/ Timeout
       \/ Verify
       \/ Retry
       \/ Closing
       \/ Replace
    /\ UNCHANGED <<running, arguments, returned, poller, wolt, api>>

SpecInitialize == InitInitialize /\ [][NextInitialize]_vars

\* ======================================================= properties
\* The prompt built from a question and the observations appended to it.
RECURSIVE PromptOf(_, _)
PromptOf(q, obs) ==
    IF obs = <<>> THEN q
    ELSE PromptOf(q, SubSeq(obs, 1, Len(obs) - 1)) \o <<CRLF, OBS>> \o obs[Len(obs)]

InRun == pc \in {"loop", "await_llm", "await_tool"}

C2_TurnCounter ==
    /\ [](turn \in 0..max_turns /\ turn = llm_calls)
    /\ [][IF pc \in {"idle", "done"} THEN turn' = 0
          ELSE IF pc = "loop" /\ pc' = "await_llm" THEN turn' = turn + 1
          ELSE turn' = turn]_vars

C2_Witness ==
    /\ pc = "loop"
    /\ turn = 4
    /\ max_turns = 4
    /\ Len(observations) = 2
    /\ Directive(response).kind = "none"

\* C3: the turn whose response holds the marker ends the run in that same
\* step with the whole response as the return value, without a further LLM
\* call or tool call; nothing follows it but a new run.
C3_FinalAnswerHalts ==
    /\ [][(pc = "await_llm" /\ IsStr(response') /\ is_final(response')) =>
            /\ pc' = "done"
            /\ outcome' = Return(response')
            /\ llm_calls' = llm_calls
            /\ tool_calls' = tool_calls
            /\ forwarded' = forwarded]_vars
    /\ [][pc = "done" => (pc' = "loop" /\ llm_calls' = 0 /\ tool_calls' = <<>>)]_vars

C3_Witness ==
    /\ pc = "done"
    /\ turn = 3
    /\ response = T_final
    /\ outcome = Return(T_final)
    /\ Len(tool_calls) = 1

\* C4: a response that holds both the marker and a well-formed directive
\* invokes no tool and ends the run.
C4_FinalBeforeAction ==
    [][(/\ pc = "await_llm"
        /\ IsStr(response')
        /\ is_final(response')
        /\ action_re_search(response').found) =>
            /\ tool_calls' = tool_calls
            /\ forwarded' = forwarded
            /\ observations' = observations
            /\ pending' = NoCall
            /\ pc' = "done"
            /\ outcome'.kind = "return"]_vars

C4_Witness ==
    /\ pc = "done"
    /\ response = T_final_act
    /\ outcome.kind = "return"
    /\ <<"fs">> \in connected_clients
    /\ tool_calls = <<>>

\* C5: the prompt is the question followed by one observation line per
\* finished tool call, in call order; it is what the next LLM call sends, and
\* a step of a run only ever appends to it.
C5_PromptIsQuestionPlusObservations ==
    /\ [](/\ pc # "idle" => current_prompt = PromptOf(question, observations)
          /\ pc = "await_llm" => sent = current_prompt
          /\ Len(observations) = Len(tool_calls) - (IF pc = "await_tool" THEN 1 ELSE 0))
    /\ [][InRun => /\ Len(current_prompt') >= Len(current_prompt)
                   /\ SubSeq(current_prompt', 1, Len(current_prompt)) = current_prompt]_vars

C5_Witness ==
    /\ pc = "await_llm"
    /\ Len(observations) = 2
    /\ observations[1] # observations[2]
    /\ sent = question \o <<CRLF, OBS>> \o observations[1] \o <<CRLF, OBS>> \o observations[2]

\* C6 as stated: after a response with neither a directive nor the marker,
\* the message of the following LLM call is that response's text.
C6_ResponseTextReused ==
    (pc = "await_llm" /\ turn >= 2 /\ Directive(response).kind = "none") =>
        sent = response

\* C6 as amended: after a response with neither a directive nor the marker,
\* the prompt is left unchanged, so the message of the following LLM call is
\* the message of the call before it.
C6_SamePromptReused ==
    [][(/\ pc = "loop"
        /\ pc' = "await_llm"
        /\ turn >= 1
        /\ Directive(response).kind = "none") => sent' = sent]_vars

C6_Witness ==
    /\ pc = "await_llm"
    /\ turn = 3
    /\ response = T_plain
    /\ Len(observations) = 1
    /\ sent = PromptOf(question, observations)
    /\ sent # response

\* The calls the directive texts stand for.
ExpectedCall(text) ==
    CASE text = T_act ->
           [server_name |-> <<"fs">>, action_name |-> <<"ls">>,
            args |-> (<<"path">> :> StrValue(<<"/tmp">>)) @@ (<<"n">> :> IntValue(FALSE, 10))]
      [] text = T_unknown_server ->
           [server_name |-> <<"zz">>, action_name |-> <<"ls">>,
            args |-> (<<"path">> :> StrValue(<<"/tmp">>))]
      [] text = T_unknown_tool ->
           [server_name |-> <<"fs">>, action_name |-> <<"rm">>,
            args |-> (<<"path">> :> StrValue(<<"/tmp">>))]
      [] OTHER -> NoCall

\* C7: a run of k-1 directive turns and a final answer on turn k returns that
\* answer after k LLM calls and k-1 tool invocations; each invocation carries
\* the server, action and coerced arguments of its directive, and every LLM
\* call of such a run sends the question with the results so far, in order.
C7_DirectivesThenFinal ==
    /\ (pc = "done" /\ outcome.kind = "return" /\ is_final(response)
          /\ Len(tool_calls) = turn - 1) =>
            /\ outcome.value = response
            /\ llm_calls = turn
            /\ Len(observations) = turn - 1
    /\ (pc = "await_llm" /\ Len(tool_calls) = turn - 1) =>
            /\ Len(observations) = turn - 1
            /\ sent = PromptOf(question, observations)
    /\ (InRun /\ turn >= 1 /\ pc # "await_llm"
          /\ response \in {T_act, T_unknown_server, T_unknown_tool}) =>
            /\ tool_calls # <<>>
            /\ tool_calls[Len(tool_calls)] = ExpectedCall(response)
    /\ pc = "await_tool" =>
            /\ pending = ExpectedCall(response)
            /\ forwarded # <<>>
            /\ forwarded[Len(forwarded)] = pending

C7_Witness ==
    /\ pc = "done"
    /\ is_final(response)
    /\ outcome = Return(response)
    /\ turn = 3
    /\ llm_calls = 3
    /\ Len(tool_calls) = 2
    /\ tool_calls[1] = ExpectedCall(T_act)
    /\ forwarded = tool_calls
    /\ observations[1] = <<"a.txt", "b.txt">>

\* C8 as stated: the run always ends by returning a string, and a tool call
\* that failed leaves the loop running.
C8_NoExceptionEscapes ==
    /\ pc = "done" => outcome.kind = "return"
    /\ (pc = "loop" /\ Len(tool_calls) \in raised_calls) => outcome = Running

\* A call whose qualified name is no tool of a connected server.
Unregistered(c) ==
    \/ c.server_name \notin connected_clients
    \/ c.action_name \notin ServerTools(c.server_name)

HasErrorIndicator(obs) == obs # <<>> /\ obs[1] \in {ERR, "{'error': '"}

EndsWith(text, tail) ==
    /\ Len(text) >= Len(tail)
    /\ SubSeq(text, Len(text) - Len(tail) + 1, Len(text)) = tail

C10_RaisedCallObservedAsError ==
    \A i \in raised_calls : i <= Len(observations) => observations[i][1] = ERR

\* The text holds a match of the action pattern whose tool name has no
\* namespace separator.
NameLacksSeparator(text) ==
    /\ action_re_search(text).found
    /\ ~Contains(action_re_search(text).group1, DOT)

\* C11: a response without the marker whose directive matches the action
\* pattern but names a tool without the namespace separator is a turn without
\* a directive: no tool is called, nothing is observed, the prompt stays as it
\* was, the turn it took stays counted, nothing is raised and the loop goes on
\* to its next test.
C11_MalformedDirectiveSkipped ==
    [][(pc = "await_llm" /\ IsStr(response') /\ ~is_final(response')
            /\ NameLacksSeparator(response'))
        => /\ tool_calls' = tool_calls
           /\ forwarded' = forwarded
           /\ pending' = NoCall
           /\ observations' = observations
           /\ current_prompt' = current_prompt
           /\ turn' = turn /\ turn >= 1 /\ llm_calls' = turn
           /\ outcome' = Running
           /\ pc' = "loop"]_vars

C11_Witness ==
    /\ pc = "await_llm"
    /\ turn = 3
    /\ response = T_malformed
    /\ tool_calls = <<>>
    /\ current_prompt = question

\* The HTTP exchanges in which the LLM call fails.
LLMFailures == {o \in LLMOutcomes : o.kind # "ok"}

IsErrorString(text) == IsStr(text) /\ text # <<>> /\ text[1] = ERR

\* C12 as stated: every failure of the LLM call (a status other than 200, a
\* payload without choices, an undecodable payload, a network error) comes
\* back from execute as a string beginning with "Error: ", and a run whose
\* LLM call failed ends only by exhaustion, after max_turns calls.
C12_FailingLLMExhausts ==
    /\ \A o \in LLMFailures : IsErrorString(execute(o))
    /\ (pc = "done" /\ IsErrorString(response)) =>
          /\ outcome = Return(ExhaustedMsg)
          /\ llm_calls = max_turns

\* C12, amended: every failure of the LLM call comes back from execute as a
\* string beginning with "Error: " and nothing is raised; the loop handles
\* that string like any response.  One that holds neither the final-answer
\* marker nor a directive is a turn without a directive (no tool call, the
\* prompt unchanged, the loop goes on), so a run ending on such a failure ends
\* by exhaustion after max_turns calls; one that holds the marker (the body
\* of an answer with a status other than 200 is copied into it) ends the run
\* with that string returned.
C12_ErrorStringsHandledAsResponses ==
    /\ [](\A o \in LLMFailures : IsErrorString(execute(o)))
    /\ []((pc = "done" /\ IsErrorString(response) /\ ~is_final(response)
              /\ ~action_re_search(response).found)
           => (outcome = Return(ExhaustedMsg) /\ llm_calls = max_turns))
    /\ [][(pc = "await_llm" /\ IsErrorString(response'))
           => IF is_final(response')
              THEN pc' = "done" /\ outcome' = Return(response')
                   /\ tool_calls' = tool_calls
              ELSE ~action_re_search(response').found
                   => /\ pc' = "loop"
                      /\ outcome' = Running
                      /\ current_prompt' = current_prompt
                      /\ tool_calls' = tool_calls]_vars

C12_Witness ==
    /\ pc = "done"
    /\ outcome = Return(ExhaustedMsg)
    /\ max_turns = 4
    /\ llm_calls = 4
    /\ response = execute([kind |-> "json_error", content |-> <<>>])
    /\ tool_calls = <<>>

\* Number of occurrences of sym in text.
Count(text, sym) == Cardinality({i \in 1..Len(text) : text[i] = sym})

\* The tool name of the first directive of a text that begins one.
FirstName(text) ==
    LET i == Find(text, ACT, 1)
    IN  SubSeq(text, i + 1, Find(text, BAR, i) - 1)

\* C13: the loop is strictly sequential: an LLM call is made only from the
\* loop test, one per turn, with no tool call in flight; a turn makes at most
\* one tool call, at most one call is in flight at any time and the next turn
\* starts only after its observation; a response with several directives
\* causes exactly one call, that of the first match.
C13_OneCallPerTurn ==
    /\ [](/\ Len(tool_calls) <= llm_calls
          /\ (pending # NoCall) <=> (pc = "await_tool")
          /\ Len(tool_calls) = Len(observations) + (IF pc = "await_tool" THEN 1 ELSE 0))
    /\ [][/\ (llm_calls' # llm_calls /\ pc \notin {"idle", "done"})
              => (pc = "loop" /\ pending = NoCall /\ llm_calls' = llm_calls + 1
                  /\ tool_calls' = tool_calls)
          /\ (tool_calls' # tool_calls /\ pc \notin {"idle", "done"})
              => (pc = "await_llm" /\ Len(tool_calls') = Len(tool_calls) + 1
                  /\ SubSeq(tool_calls', 1, Len(tool_calls)) = tool_calls)
          /\ (pc = "await_llm" /\ IsStr(response') /\ Count(response', ACT) >= 2
                /\ ~is_final(response'))
              => /\ Len(tool_calls') = Len(tool_calls) + 1
                 /\ LET c == tool_calls'[Len(tool_calls')]
                    IN  c.server_name \o <<DOT>> \o c.action_name
                           = FirstName(response')]_vars

C13_Witness ==
    /\ pc = "loop"
    /\ turn = 1
    /\ response = T_two
    /\ tool_calls = <<[server_name |-> <<"fs">>, action_name |-> <<"ls">>,
                       args |-> DictSet(EmptyDict, <<"path">>, StrValue(<<"/a">>))]>>
    /\ Len(observations) = 1

\* C14 as stated: a directive is dispatched through the registry the agent
\* got from get_tools: the qualified name of every call that reaches a tool
\* provider is a key of the registry, server and tool joined by the separator
\* the registry uses, and that server lists that tool.
C14_DispatchThroughRegistry ==
    \A i \in 1..Len(forwarded) :
        /\ \E k \in DOMAIN actions :
              /\ actions[k].server = forwarded[i].server_name
              /\ actions[k].tool_name = forwarded[i].action_name
        /\ forwarded[i].server_name \o <<DOT>> \o forwarded[i].action_name
              \in DOMAIN actions

\* C15 as stated: registering a qualified name that is already registered
\* fails with a duplicate-name error and leaves the earlier entry in place.
\* get_tools has no such error, so the registry would have to hold, for every
\* name, the entry of its first listing.
C15_DuplicateKeepsEarlier ==
    returned # NoResult =>
        \A c \in 1..Len(arguments) :
            \A i \in 1..Len(arguments[c].tools) :
                LET tool == arguments[c].tools[i]
                    key == unique_tool_name(arguments[c].server_name, tool.name)
                    first == Min({j \in 1..i : arguments[c].tools[j].name = tool.name})
                IN  /\ key \in DOMAIN returned.value
                    /\ returned.value[key].description
                          = arguments[c].tools[first].description

\* C16: for every well-formed line 'Action: [a.b|k1:v1,k2:v2]' whose parts
\* hold no '|', ',', ':' or ']', the parser finds the namespace a and the
\* action b, a dot inside the action staying in the action, and the arguments
\* are exactly the map {k1: coerce(v1), k2: coerce(v2)}.
C16_WellFormedDirectiveParsed ==
    returned # NoResult =>
        returned.value =
            [kind |-> "call",
             server_name |-> arguments.a,
             action_name |-> arguments.b,
             args |-> DictSet(DictSet(EmptyDict, arguments.k1, Coerce(arguments.v1)),
                              arguments.k2, Coerce(arguments.v2))]

C16_Witness ==
    /\ returned # NoResult
    /\ arguments.a = <<"w", "1">>
    /\ arguments.b = <<"ls", DOT, "v2">>
    /\ arguments.v1 = <<"1", DOT>>
    /\ arguments.k2 = <<"n">>
    /\ arguments.v2 = <<DOT, "x">>
    /\ returned.value.action_name = <<"ls", DOT, "v2">>
    /\ returned.value.args[<<"k">>] = IntValue(FALSE, 1)
    /\ returned.value.args[<<"n">>] = StrValue(<<DOT, "x">>)

\* The comma-separated segments of a raw argument string, as pairs of their
\* first and last position (an empty segment has last = first - 1).
Segments(t) ==
    {s \in (1..(Len(t) + 1)) \X (0..Len(t)) :
        /\ s[1] <= s[2] + 1
        /\ s[1] = 1 \/ t[s[1] - 1] = COMMA
        /\ s[2] = Len(t) \/ t[s[2] + 1] = COMMA
        /\ \A i \in s[1]..s[2] : t[i] # COMMA}

HasColon(t, s) == \E i \in s[1]..s[2] : t[i] = COLON
FirstColon(t, s) == Min({i \in s[1]..s[2] : t[i] = COLON})

\* The text before and after the first colon of a segment, surrounding
\* whitespace aside.
KeyOf(t, s) == strip(SubSeq(t, s[1], FirstColon(t, s) - 1))
ValueOf(t, s) == strip(SubSeq(t, FirstColon(t, s) + 1, s[2]))

\* The segments that set a key, and those no later segment overrides.
Pairs(t) == {s \in Segments(t) : HasColon(t, s)}
Standing(t) ==
    {s \in Pairs(t) : \A r \in Pairs(t) : KeyOf(t, r) = KeyOf(t, s) => r[1] <= s[1]}

\* C17: each comma-separated segment is split on its first colon only: the
\* key is the text before it and the value everything after it (surrounding
\* whitespace aside), so a value with further colons is preserved in full,
\* as the string it is.
C17_FirstColonSplits ==
    (returned # NoResult /\ IsStr(arguments)) =>
        \A s \in Standing(arguments) :
            /\ KeyOf(arguments, s) \in DOMAIN returned.value
            /\ returned.value[KeyOf(arguments, s)] = Coerce(ValueOf(arguments, s))
            /\ Contains(ValueOf(arguments, s), COLON) =>
                  returned.value[KeyOf(arguments, s)] = StrValue(ValueOf(arguments, s))

C17_Witness ==
    /\ arguments = <<"path", COLON, "C", COLON, "/data">>
    /\ returned # NoResult
    /\ DOMAIN returned.value = {<<"path">>}
    /\ returned.value[<<"path">>] = StrValue(<<"C", COLON, "/data">>)

\* How a value reads as a decimal literal: digits around at most one point.
PointAt(v) == {i \in 1..Len(v) : v[i] = DOT}
IsDecimal(v) ==
    /\ \A i \in 1..Len(v) : v[i] \in Digits \cup {DOT}
    /\ Cardinality(PointAt(v)) <= 1
    /\ \E i \in 1..Len(v) : v[i] \in Digits
HasFraction(v) ==
    \E p \in PointAt(v) : \E i \in (p + 1)..Len(v) : v[i] # "0"
WholePart(v) == SubSeq(v, 1, Min(PointAt(v) \cup {Len(v) + 1}) - 1)

\* C18: a value that parses as a number with a fractional part becomes a
\* float, one that parses as a whole number becomes an integer and not a
\* float, and one that does not parse as a number stays the unchanged string.
C18_NumericCoercion ==
    /\ Coerce(<<"4", "7", DOT, "5">>) = FloatValue(FALSE, 47, <<"5">>)
    /\ Coerce(<<"1", "0">>) = IntValue(FALSE, 10)
    /\ Coerce(<<"abc">>) = StrValue(<<"abc">>)
    /\ (returned # NoResult /\ IsStr(arguments)) =>
          \A s \in Standing(arguments) :
              LET v == ValueOf(arguments, s)
                  value == returned.value[KeyOf(arguments, s)]
              IN  IF ~IsDecimal(v) THEN value = StrValue(v)
                  ELSE IF HasFraction(v)
                       THEN value.kind = "float" /\ value.num = DecVal(WholePart(v))
                       ELSE value = IntValue(FALSE, DecVal(WholePart(v)))

C18_Witness ==
    /\ arguments = <<"lat", COLON, "4", "7", DOT, "5", COMMA, "n", COLON, "1", "0",
                     COMMA, "s", COLON, "abc">>
    /\ returned # NoResult
    /\ returned.value[<<"lat">>] = FloatValue(FALSE, 47, <<"5">>)
    /\ returned.value[<<"n">>] = IntValue(FALSE, 10)
    /\ returned.value[<<"s">>] = StrValue(<<"abc">>)

\* C19: coercion is total: every input, None and the empty string included,
\* gets a map and no exception; None and the empty string give the empty
\* map; the keys of the map are exactly the keys of the segments holding a
\* colon, so a segment without a colon adds no key and empty segments are
\* ignored; each key occurs once, with the value of its last segment.
C19_CoercionTotal ==
    /\ returned # NoResult =>
          /\ (arguments = None \/ arguments = <<>>) => returned.value = EmptyDict
          /\ IsStr(arguments) =>
                /\ DOMAIN returned.value
                      = {KeyOf(arguments, s) : s \in Pairs(arguments)}
                /\ Cardinality(DOMAIN returned.value) <= Cardinality(Pairs(arguments))

C19_Witness ==
    /\ arguments = <<"note", COLON, "city", COLON, "center", COMMA, SP, "flag", COMMA,
                     COMMA, "n", COLON, SP, "1", "0", DOT, "0", SP>>
    /\ returned # NoResult
    /\ DOMAIN returned.value = {<<"note">>, <<"n">>}
    /\ returned.value[<<"n">>] = IntValue(FALSE, 10)

\* The configured endurance is an integer: an integer of the configuration
\* file, or a string that reads as one.
ConfiguredInteger(c) ==
    c.type = "int" \/ (c.type = "str" /\ IsIntLiteral(strip(c.text)))

ConfiguredValue(c) == IF c.type = "int" THEN c.num ELSE IntOf(strip(c.text))

\* C20 as stated: an agent is constructed whatever the configuration holds;
\* its endurance is the constructor's when one is passed, else the configured
\* integer, else (no configured value, or one that is no integer) the default
\* 5; max_turns is the square of the endurance (25 by default) and never
\* changes, during a run or between runs.
C20_BudgetFromEndurance ==
    /\ [](/\ pc # "no_agent"
          /\ endurance = (IF endurance_arg.given THEN endurance_arg.value
                           ELSE IF ConfiguredInteger(agent_data)
                                THEN ConfiguredValue(agent_data)
                                ELSE DEFAULT_ENDURANCE)
          /\ max_turns = endurance * endurance)
    /\ [][max_turns' = max_turns /\ endurance' = endurance]_vars

\* C21 as stated: the transcript belongs to one run: a run starts from a
\* transcript holding only the system prompt, so its first LLM call is made
\* on the system prompt and the new question alone, whatever ran before; and
\* within a run the transcript changes only by appending.
C21_TranscriptPerRun ==
    /\ []((pc = "loop" /\ turn = 0) => messages = SystemPrompt)
    /\ []((pc = "await_llm" /\ turn = 1)
           => messages = Append(SystemPrompt, Msg("user", question)))
    /\ [][(pc \in {"loop", "await_llm", "await_tool"})
            => (Len(messages) <= Len(messages')
                /\ SubSeq(messages', 1, Len(messages)) = messages)]_vars

\* The poller's requests, pace and stopping rule.
KeepsPolling(resp) ==
    /\ resp.kind = "response"
    /\ resp.http # 200 \/ resp.status \notin {"completed", "error"}

PollerPaced ==
    /\ poller.requests <= max_retries
    /\ poller.clock =
         poll_interval * (poller.requests + IF poller.pc = "request" THEN 1 ELSE 0)
    /\ poller.stopped => poller.pc \in {"report", "done"}
    /\ poller.pc = "sleep" /\ poller.requests > 0 => KeepsPolling(poller.last)

PollerSteps ==
    /\ poller.pc = "request" /\ KeepsPolling(poller'.last)
         => poller'.pc = "sleep" /\ poller'.final_message = UnknownStatus
    /\ poller.pc = "request" /\ poller'.last.kind = "response"
       /\ poller'.last.http = 200 /\ poller'.last.status \in {"completed", "error"}
         => poller'.pc = "report" /\ poller'.stopped
    /\ poller.pc \in {"report", "done"} => poller'.requests = poller.requests

FinalKinds == {"result", "task_failed", "taking_longer", "polling_error"}

OneFinalMessage ==
    /\ Len(poller.reported) = 1
    /\ poller.reported[1].message = poller.final_message
    /\ poller.final_message.kind \in FinalKinds
    /\ poller.final_message.kind = "taking_longer" <=>
          (poller.requests = max_retries /\ KeepsPolling(poller.last))
    /\ poller.final_message.kind = "result" =>
          poller.last.status = "completed"
          /\ poller.final_message.detail = Get(poller.last.value, "No result provided")
    /\ poller.final_message.kind = "task_failed" =>
          poller.last.status = "error"
          /\ poller.final_message.detail = Get(poller.last.value, "Unknown error")
    /\ poller.final_message.kind = "polling_error" => poller.last.kind = "raise"

Delivered(r) == r.channel = "session" /\ ~r.failed

\* C22 as stated: the poller of one task makes at most 30 status requests,
\* one after each 1-second sleep, stops at the first completed or error
\* status, keeps polling on a non-200 response and on every other status,
\* and always terminates having delivered exactly one final message: the
\* result, the task-failed message, the taking-longer message after 30
\* requests, or the polling-error message.
C22_PollerDelivers ==
    /\ [](poller.pc # "none" => PollerPaced)
    /\ [][PollerSteps]_vars
    /\ [](poller.pc \in {"idle", "not_started", "sleep", "request", "report"}
            => poller.reported = <<>>)
    /\ [](poller.pc = "done" => OneFinalMessage /\ Delivered(poller.reported[1]))
    /\ <>(poller.pc \in {"done", "not_started"})

\* C22 amended: as stated, with the delivery as the code makes it: the one
\* final message is handed once to session.generate_reply when the assistant
\* has a session and printed otherwise, and a generate_reply that raises is
\* caught, so the poller ends all the same with that message undelivered.
C22_PollerReportsOnce ==
    /\ [](poller.pc # "none" => PollerPaced)
    /\ [][PollerSteps]_vars
    /\ [](poller.pc \in {"idle", "not_started", "sleep", "request", "report"}
            => poller.reported = <<>>)
    /\ [](poller.pc = "done"
            => /\ OneFinalMessage
               /\ poller.reported[1].failed => poller.reported[1].channel = "session")
    /\ [][poller.pc = "done" => poller' = poller]_vars
    /\ <>(poller.pc \in {"done", "not_started"})

\* The poller ran out of retries on a task still queued and told the user so.
C22_Witness ==
    /\ poller.pc = "done"
    /\ poller.requests = max_retries
    /\ poller.clock = max_retries * poll_interval
    /\ poller.last.status = "queued"
    /\ poller.final_message = TakingLonger
    /\ Delivered(poller.reported[1])

\* The plan carries dev_mode set to True.
DevModeTrue(plan) == plan.dev_mode.type = "bool" /\ plan.dev_mode.num = 1

\* C23: a call of wolt_checkout whose purchase plan carries dev_mode True
\* returns the checkout-blocked error object and sends no POST: the call
\* is over in one step with the POSTs sent so far unchanged, and no plan
\* with dev_mode True is ever among the POSTs.
C23_DevModeBlocksCheckout ==
    /\ [](wolt.pc # "none"
           => /\ \A i \in 1..Len(wolt.posts) : ~DevModeTrue(wolt.posts[i])
              /\ \A i \in 1..Len(wolt.results) :
                    DevModeTrue(wolt.calls[i])
                      => wolt.results[i] = CheckoutBlocked /\ wolt.results[i].error)
    /\ [][(wolt.pc = "idle" /\ Len(wolt'.calls) > Len(wolt.calls)
            /\ DevModeTrue(wolt'.calls[Len(wolt'.calls)]))
           => (/\ wolt'.posts = wolt.posts
               /\ wolt'.pc = "idle"
               /\ Len(wolt'.results) = Len(wolt'.calls)
               /\ wolt'.results[Len(wolt'.results)] = CheckoutBlocked)]_vars

\* A checkout was sent, then a call with dev_mode True was blocked.
C23_Witness ==
    /\ wolt.pc = "idle"
    /\ Len(wolt.calls) = 2
    /\ ~wolt.results[1].error
    /\ DevModeTrue(wolt.calls[2])
    /\ wolt.results[2] = CheckoutBlocked
    /\ Len(wolt.posts) = 1

\* The status stored for task t.
StatusOf(t) == api.task_results[t].status

Terminal(status) == status \in {"completed", "error"}

\* One step of a task's status along the claimed path.
Moves(t, from, to) ==
    \/ to = from
    \/ from = "absent" /\ to = "queued"
    \/ from = "queued" /\ to = "processing"
    \/ from = "processing" /\ Terminal(to)
    \/ /\ from = "queued" /\ to = "error"
       /\ api.threads[t].pc = "except"
       /\ api.agents[t].state = "cleaned"

\* C24: a task's status only moves queued, processing, then completed or
\* error, or from queued to error when the initialization of the agent
\* failed; a completed or failed task keeps its status and result; and a
\* GET for an id that POST /tasks has not returned is answered 404 (and
\* only such a GET is).
C24_TaskStatusPath ==
    /\ [][\A t \in TaskIds :
            /\ Moves(t, StatusOf(t), api'.task_results[t].status)
            /\ Terminal(StatusOf(t)) => api'.task_results[t] = api.task_results[t]]_vars
    /\ [][api'.got # api.got
            => (api'.got.http = 404
                  <=> (api'.got.task_id \notin TaskIds
                       \/ StatusOf(api'.got.task_id) = "absent"))]_vars

\* One task failed straight from queued, one completed, and a GET for an
\* id no POST returned was answered 404.
C24_Witness ==
    /\ api.up
    /\ StatusOf(1) = "error" /\ api.agents[1].state = "cleaned"
    /\ StatusOf(2) = "completed"
    /\ api.got = [task_id |-> NoTask, http |-> 404]

\* C25: every task accepted by POST /tasks (stored as queued) eventually
\* reaches the status completed or error, whatever its initialization and
\* its run end with, given that every call its thread waits for returns: an
\* accepted task stays stored, and again and again no stored task is queued
\* or processing.
C25_EveryTaskEnds ==
    /\ [][\A t \in TaskIds :
            StatusOf(t) # "absent" => api'.task_results[t].status # "absent"]_vars
    /\ []<>(\A t \in TaskIds : StatusOf(t) \notin {"queued", "processing"})

\* One task failed at initialization, one ran to the exhaustion message.
C25_Witness ==
    /\ api.up
    /\ StatusOf(1) = "error"
    /\ api.task_results[2] =
         TaskInfo("completed", <<"Reached", "maximum", "number", "of", "turns">>)

\* C26 as stated: the shared agent holds one conversation at a time: no two
\* executions of process_task are inside agent.run of the same agent
\* together, none is turned away because the agent's loop is running, and
\* no two executions initialize an agent for the unset slot.
C26_OneConversation ==
    api.up =>
        /\ \A a \in TaskIds : Cardinality(api.agents[a].runs) <= 1
        /\ \A t \in TaskIds :
              api.threads[t].pc = "except" => api.threads[t].error # E_LoopRunning
        /\ Cardinality({t \in TaskIds : api.threads[t].pc = "initialize"}) <= 1

\* C27 as stated: a task that met the filesystem server not connected
\* fails and leaves no broken agent behind: when the initialization of its
\* agent failed for it, that agent is cleaned up and is not in the slot; when
\* a tool call of its run was refused for it, the task ends in error, the
\* global agent is cleaned up and the slot is unset.
C27_NotConnectedResets ==
    [][\A t \in TaskIds :
          /\ (/\ api.threads[t].pc = "except"
              /\ api.threads[t].error = E_FailedToConnect
              /\ api'.threads[t].pc = "done")
             => (/\ api'.task_results[t].status = "error"
                 /\ api'.global_agent # t
                 /\ api'.agents[t].state = "cleaned")
          /\ (/\ api.threads[t].pc = "running"
              /\ api.threads[t].refused
              /\ api'.threads[t].pc # "running")
             => (/\ api'.threads[t].pc = "except" \/ api'.task_results[t].status = "error"
                 /\ api'.threads[t].pc = "done"
                      => (/\ api'.global_agent = NoTask
                          /\ api'.agents[api.threads[t].agent].state = "cleaned"))]_vars

\* C29: when close_all_clients has returned, clients and connected_clients
\* are empty, whether each close returned, raised, or was cancelled at the
\* timeout, and until clients are created again every call_tool, for any
\* server name, is refused as not connected and reaches no client.
C29_ClosedMeansEmpty ==
    /\ [](cm.pc # "none" /\ cm.closed
            => (ClientNames(cm) = {} /\ ConnectedNames(cm) = {}))
    /\ [][cm.pc = "closing" /\ cm'.pc = "idle"
            => (cm'.closed /\ ClientNames(cm') = {} /\ ConnectedNames(cm') = {})]_vars
    /\ [][(cm.pc = "idle" /\ cm.closed /\ cm'.closed /\ cm'.last # cm.last)
            => cm'.last.kind = "not_connected"]_vars

\* One close raised and another was cancelled at the timeout, and a call
\* for the filesystem server was then refused.
C29_Witness ==
    /\ cm.pc = "idle"
    /\ cm.closed
    /\ {"raised", "cancelled"} \subseteq cm.outcomes
    /\ cm.last = [server |-> "filesystem", kind |-> "not_connected"]

\* C30: in every state of a ClientManager the servers in connected_clients
\* are among those in clients and are exactly those whose connect_to_server
\* has returned without error since the last close; a server that cannot be
\* created or connected does not keep the loops from reaching the other
\* servers; and call_tool hands a call to a client only for a server in
\* connected_clients.
C30_ConnectedAreTheSucceeded ==
    /\ [](cm.pc # "none"
            => /\ ConnectedNames(cm) \subseteq ClientNames(cm)
               /\ ConnectedNames(cm) = cm.succeeded)
    /\ [][(cm.pc = "creating" /\ cm'.pc # "creating")
            => cm.valid \subseteq ClientNames(cm')]_vars
    /\ [][(cm.pc = "connecting" /\ cm'.pc = "idle")
            => \A n \in ClientNames(cm') : cm'.clients[n] \in {"connected", "failed"}]_vars
    /\ [][(cm.pc = "idle" /\ cm'.last # cm.last /\ cm'.last.kind = "forwarded")
            => cm'.last.server \in ConnectedNames(cm)]_vars

\* The filesystem server failed to connect, the wolt server after it was
\* connected, and a call for the wolt server was handed to its client.
C30_Witness ==
    /\ cm.pc = "idle"
    /\ cm.clients["filesystem"] = "failed"
    /\ cm.connected_clients["filesystem"] = "absent"
    /\ cm.connected_clients["wolt"] = "same"
    /\ cm.last = [server |-> "wolt", kind |-> "forwarded"]

\* C28: initialize makes at most 3 attempts; when it has ended it has
\* returned normally exactly if some attempt's start completed within the
\* timeout with the filesystem server connected, and has otherwise raised
\* the error of the last attempt; and every attempt after the first runs on
\* a new client manager with no connection of the attempt before.
C28_InitializeRetries ==
    starting.pc # "none" =>
        /\ starting.attempts <= initialize_max_retries
        /\ starting.pc \in {"returned", "raised"}
             => /\ (starting.pc = "returned") <=> starting.in_time
                /\ starting.pc = "raised" => starting.raised = starting.last_error
        /\ starting.pc = "start"
             => /\ starting.managers = starting.attempts
                /\ cm.succeeded \subseteq ConnectedNames(cm)

====
